---- MODULE Spec2Model ----
(***************************************************************************)
(* EDUPLANNER timetable engine: the genetic algorithm of                   *)
(* core/genetic_algorithm.py (GeneticAlgorithm, generate_department_       *)
(* timetable) over the tables of core/models.py.                           *)
(*                                                                         *)
(* Fitness values are kept as integers in units of 1/FitScale, because the *)
(* workload-balance term divides by the number of faculty that teach.      *)
(***************************************************************************)
EXTENDS Integers, Sequences, FiniteSets, TLC

VARIABLES
    config,            \* SystemConfiguration.objects.first(): "ODD", "EVEN" or "NONE" (no row)
    semesters,         \* Semester rows of the department: set of [id, number]
    classes,           \* ClassSection rows, in query order: Seq([id, semester_id])
    subjects,          \* Subject rows, in query order
    faculties,         \* Faculty rows, in query order
    time_slots,        \* TimeSlot rows: set of slot ids
    entries,           \* TimetableEntry rows: set of records with pk
    assignments,       \* FacultySubjectAssignment rows: set of records with pk
    next_pk,           \* next primary key of the two written tables
    params,            \* GeneticAlgorithm constructor arguments
    problem,           \* data held by the GeneticAlgorithm after load_data
    pc,                \* position of the generation request
    report,            \* the dictionary returned by generate_department_timetable
    population,        \* evolve: population
    new_population,    \* evolve: new_population
    generation,        \* evolve: generation
    best_ever,         \* evolve: best_ever
    fitness_history,   \* evolve: fitness_history
    callback_log,      \* the (generation, fitness) pairs passed to callback
    evaluated,         \* fitness of every chromosome evaluated in this run
    widx,              \* writer: number of genes of best_solution already saved
    run_no,            \* number of requests started
    entries_before,    \* TimetableEntry rows when the current request started
    assignments_before,\* FacultySubjectAssignment rows when the current request started
    prev_pc,           \* how the previous request ended
    heap,              \* Gene objects by identity: Seq of gene records, id = index
    heap_before,       \* the Gene objects when the parents were built
    refs,              \* chromosomes as lists of Gene object ids
    opc,               \* position of the copy / crossover experiment
    runs               \* concurrent writers: per request its pair, genes and position

tables == <<config, semesters, classes, subjects, faculties, time_slots>>
written == <<entries, assignments, next_pk>>
gastate == <<population, new_population, generation, best_ever, fitness_history,
             callback_log, evaluated>>
snapshot == <<entries_before, assignments_before, prev_pc>>
objects == <<heap, heap_before, refs, opc>>
vars == <<config, semesters, classes, subjects, faculties, time_slots,
          entries, assignments, next_pk, params, problem, pc, report,
          population, new_population, generation, best_ever, fitness_history,
          callback_log, evaluated, widx, run_no, entries_before, assignments_before,
          prev_pc, heap, heap_before, refs, opc, runs>>

----------------------------------------------------------------------------
(* Bounds of the model *)

\* each draw of random.shuffle is taken among the first ShuffleWindow free slots
ShuffleWindow == 2
\* generations <= MaxGenerations
MaxGenerations == 2
\* consecutive requests for the same department and tag
MaxRuns == 2

(* Program constants *)

PeriodsPerDay == 7
DaysPerWeek == 5
DefaultMaxHours == 20
FitScale == 3 * 4

None == 0
Tag == "2024-ODD"
OtherTag == "2023-ODD"

WEIGHTS == [faculty_clash |-> -1000, class_clash |-> -1000, workload_exceeded |-> -500,
            lab_continuity |-> -500, lab_timing |-> -100, two_labs_per_week |-> -500,
            subject_rotation |-> -50, faculty_preference |-> 100, workload_balance |-> -30]

WORKLOAD_LIMITS(designation) ==
    CASE designation = "PROFESSOR" -> 10
      [] designation = "ASSOCIATE_PROFESSOR" -> 15
      [] designation = "ASSISTANT_PROFESSOR" -> 23
      [] OTHER -> DefaultMaxHours

----------------------------------------------------------------------------
(* Sequence helpers *)

Range(s) == {s[i] : i \in 1..Len(s)}

RECURSIVE SumSeq(_)
SumSeq(s) == IF s = <<>> THEN 0 ELSE Head(s) + SumSeq(Tail(s))

RECURSIVE SetToSeq(_)
\* the elements of a set of integers in ascending order
SetToSeq(S) ==
    IF S = {} THEN <<>>
    ELSE LET m == CHOOSE x \in S : \A y \in S : x <= y
         IN <<m>> \o SetToSeq(S \ {m})

RECURSIVE Flatten(_)
Flatten(ss) == IF ss = <<>> THEN <<>> ELSE Head(ss) \o Flatten(Tail(ss))

Abs(x) == IF x < 0 THEN -x ELSE x

----------------------------------------------------------------------------
(* TimeSlot table: ids 1..35 are the teaching slots in (day, period) order,   *)
(* ids 36..40 the lunch slots; id 41 is an extra period-8 row some scenarios  *)
(* add.                                                                       *)

TeachingIds == 1..(PeriodsPerDay * DaysPerWeek)
LunchIds == (PeriodsPerDay * DaysPerWeek + 1)..(PeriodsPerDay * DaysPerWeek + DaysPerWeek)
ExtraSlotId == PeriodsPerDay * DaysPerWeek + DaysPerWeek + 1

SlotDay(id) ==
    IF id \in TeachingIds THEN (id - 1) \div PeriodsPerDay
    ELSE IF id \in LunchIds THEN id - PeriodsPerDay * DaysPerWeek - 1
    ELSE 0

SlotPeriod(id) ==
    IF id \in TeachingIds THEN ((id - 1) % PeriodsPerDay) + 1
    ELSE IF id \in LunchIds THEN 0
    ELSE PeriodsPerDay + 1

SlotType(id) ==
    IF id \in LunchIds THEN "LUNCH"
    ELSE IF SlotPeriod(id) <= 4 THEN "MORNING" ELSE "AFTERNOON"

RECURSIVE SortByDayPeriod(_)
SortByDayPeriod(S) ==
    IF S = {} THEN <<>>
    ELSE LET m == CHOOSE x \in S : \A y \in S :
                      \/ SlotDay(x) < SlotDay(y)
                      \/ (SlotDay(x) = SlotDay(y) /\ SlotPeriod(x) <= SlotPeriod(y))
         IN <<m>> \o SortByDayPeriod(S \ {m})

\* the query without its slot_type filter: the lunch rows (period 0) come through
TeachingSlotRowsUnfiltered == SortByDayPeriod(time_slots)

\* TimeSlot.objects.filter(slot_type__in=['MORNING', 'AFTERNOON']), Meta.ordering
TeachingSlotRows == SetToSeq({id \in time_slots : SlotType(id) \in {"MORNING", "AFTERNOON"}})

----------------------------------------------------------------------------
(* Gene and Chromosome *)

Gene(class_id, subject_id, faculty_id, time_slot_id, is_lab, assistant_faculty_id) ==
    [class_id |-> class_id, subject_id |-> subject_id, faculty_id |-> faculty_id,
     time_slot_id |-> time_slot_id, is_lab |-> is_lab,
     assistant_faculty_id |-> assistant_faculty_id]

Chromosome(genes, fitness) == [genes |-> genes, fitness |-> fitness]

\* a copy that leaves fitness at the dataclass default 0.0
CopyWithoutFitness(c) == Chromosome(c.genes, 0)

\* Chromosome.copy: fresh Gene objects with the same field values, same fitness
Copy(c) == Chromosome([i \in 1..Len(c.genes) |->
                          Gene(c.genes[i].class_id, c.genes[i].subject_id,
                               c.genes[i].faculty_id, c.genes[i].time_slot_id,
                               c.genes[i].is_lab, c.genes[i].assistant_faculty_id)],
                      c.fitness)

EmptyProblem ==
    [classes |-> <<>>, subjects |-> <<>>, faculties |-> <<>>, time_slots |-> <<>>,
     faculty_preferences |-> <<>>, faculty_history |-> <<>>]

----------------------------------------------------------------------------
(* GeneticAlgorithm.load_data and the lookups built from it *)

\* self.subject_info[subject_id]
SubjectInfo(subject_id) ==
    LET i == CHOOSE i \in 1..Len(problem.subjects) :
                 /\ problem.subjects[i].id = subject_id
                 /\ \A j \in (i+1)..Len(problem.subjects) : problem.subjects[j].id # subject_id
    IN problem.subjects[i]

SubjectCode(subject_id) ==
    IF \E i \in 1..Len(problem.subjects) : problem.subjects[i].id = subject_id
    THEN SubjectInfo(subject_id).code ELSE ""

\* self.class_subjects[class_id]: the subjects of the class's semester, in subject order
ClassSubjects(class_info) ==
    SelectSeq(problem.subjects, LAMBDA s : s.semester_id = class_info.semester_id)

\* self.faculty_preferences.get(faculty_id, [])
Preferences(faculty_id) ==
    IF faculty_id \in DOMAIN problem.faculty_preferences
    THEN problem.faculty_preferences[faculty_id] ELSE <<>>

\* self.faculty_history.get(faculty_id, [])
History(faculty_id) ==
    IF faculty_id \in DOMAIN problem.faculty_history
    THEN problem.faculty_history[faculty_id] ELSE <<>>

\* self.faculty_workload_limits.get(faculty_id, 20)
WorkloadLimit(faculty_id) ==
    IF \E i \in 1..Len(problem.faculties) : problem.faculties[i].id = faculty_id
    THEN LET i == CHOOSE i \in 1..Len(problem.faculties) :
                      /\ problem.faculties[i].id = faculty_id
                      /\ \A j \in (i+1)..Len(problem.faculties) :
                             problem.faculties[j].id # faculty_id
         IN problem.faculties[i].max_hours
    ELSE DefaultMaxHours

FacultyIds == [i \in 1..Len(problem.faculties) |-> problem.faculties[i].id]

\* _get_eligible_faculty_for_subject
GetEligibleFaculty(subject_id) ==
    LET code == SubjectCode(subject_id)
        eligible == SelectSeq(FacultyIds,
                        LAMBDA f : code \in Range(Preferences(f)) \/ Preferences(f) = <<>>)
    IN IF eligible # <<>> THEN eligible ELSE FacultyIds

----------------------------------------------------------------------------
(* _find_lab_slots *)

\* the days that have a free slot, in the order time_slots first names them
RECURSIVE DaysInOrder(_, _)
DaysInOrder(slots, seen) ==
    IF slots = <<>> THEN <<>>
    ELSE IF SlotDay(Head(slots)) \in seen THEN DaysInOrder(Tail(slots), seen)
    ELSE <<SlotDay(Head(slots))>> \o DaysInOrder(Tail(slots), seen \cup {SlotDay(Head(slots))})

\* slots_by_day[day], sorted by period
RECURSIVE SortByPeriod(_)
SortByPeriod(S) ==
    IF S = {} THEN <<>>
    ELSE LET m == CHOOSE x \in S : \A y \in S : <<SlotPeriod(x), x>> = <<SlotPeriod(y), y>>
                                      \/ SlotPeriod(x) < SlotPeriod(y)
                                      \/ (SlotPeriod(x) = SlotPeriod(y) /\ x < y)
         IN <<m>> \o SortByPeriod(S \ {m})

FirstN(s, n) == SubSeq(s, 1, IF Len(s) < n THEN Len(s) ELSE n)

\* the grouping loop without its test of used_slots
FreeSlotsIgnoringUsed(available_slots, used_slots) ==
    SelectSeq(problem.time_slots, LAMBDA id : id \in Range(available_slots))

\* the slots the grouping loop of lines 226-228 keeps
FreeSlots(available_slots, used_slots) ==
    SelectSeq(problem.time_slots,
              LAMBDA id : id \in Range(available_slots) /\ id \notin used_slots)

FindLabSlots(available_slots, used_slots) ==
    LET free == FreeSlots(available_slots, used_slots)
        days == DaysInOrder(free, {})
        DaySlots(d) == SortByPeriod({id \in Range(free) : SlotDay(id) = d})
        Morning(d) == SelectSeq(DaySlots(d), LAMBDA id : SlotPeriod(id) <= 3)
        Afternoon(d) == SelectSeq(DaySlots(d), LAMBDA id : SlotPeriod(id) >= 5)
        Periods(s) == {SlotPeriod(s[i]) : i \in 1..Len(s)}
        MorningOk(d) == Len(Morning(d)) >= 3 /\ {1, 2, 3} \subseteq Periods(Morning(d))
        AfternoonOk(d) == Len(Afternoon(d)) >= 3 /\ {5, 6, 7} \subseteq Periods(Afternoon(d))
        BlockDays == {k \in 1..Len(days) : MorningOk(days[k]) \/ AfternoonOk(days[k])}
        Run3(d) == {i \in 1..(Len(DaySlots(d)) - 2) :
                       /\ SlotPeriod(DaySlots(d)[i+1]) = SlotPeriod(DaySlots(d)[i]) + 1
                       /\ SlotPeriod(DaySlots(d)[i+2]) = SlotPeriod(DaySlots(d)[i]) + 2}
        RunDays == {k \in 1..Len(days) : Len(DaySlots(days[k])) >= 3 /\ Run3(days[k]) # {}}
        Min(S) == CHOOSE x \in S : \A y \in S : x <= y
    IN IF BlockDays # {}
       THEN LET d == days[Min(BlockDays)]
            IN IF MorningOk(d) THEN FirstN(Morning(d), 3) ELSE FirstN(Afternoon(d), 3)
       ELSE IF RunDays # {}
       THEN LET d == days[Min(RunDays)]
                i == Min(Run3(d))
            IN <<DaySlots(d)[i], DaySlots(d)[i+1], DaySlots(d)[i+2]>>
       ELSE <<>>

----------------------------------------------------------------------------
(* _create_random_chromosome: the set of chromosomes one call can return *)

RemoveAt(s, k) == SubSeq(s, 1, k - 1) \o SubSeq(s, k + 1, Len(s))

\* random.shuffle(remaining_slots) followed by taking the first n slots
RECURSIVE ShuffleDraws(_, _)
ShuffleDraws(remaining_slots, n) ==
    IF n <= 0 \/ remaining_slots = <<>> THEN {<<>>}
    ELSE UNION {{<<remaining_slots[k]>> \o r :
                     r \in ShuffleDraws(RemoveAt(remaining_slots, k), n - 1)} :
                k \in 1..(IF Len(remaining_slots) < ShuffleWindow
                          THEN Len(remaining_slots) ELSE ShuffleWindow)}

\* main and assistant faculty of a lab (lines 165-174); <<>> when random.choice([]) raises
LabFacultyChoices(lab_id) ==
    LET eligible_faculty == GetEligibleFaculty(lab_id)
    IN IF Len(eligible_faculty) >= 2
       THEN {<<m, a>> : m \in Range(eligible_faculty), a \in Range(eligible_faculty)} \
            {<<m, m>> : m \in Range(eligible_faculty)}
       ELSE IF Len(eligible_faculty) = 1 THEN {<<eligible_faculty[1], None>>}
       ELSE {<<m, None>> : m \in Range(FacultyIds)}

\* faculty of a theory subject (lines 195-200)
TheoryFacultyChoices(subject_id) ==
    IF GetEligibleFaculty(subject_id) # <<>> THEN Range(GetEligibleFaculty(subject_id))
    ELSE Range(FacultyIds)

\* the lab loop of one class: set of [genes, used_slots]
RECURSIVE ScheduleLabs(_, _, _, _)
ScheduleLabs(class_id, labs, genes, used_slots) ==
    IF labs = <<>> THEN {[genes |-> genes, used_slots |-> used_slots]}
    ELSE LET lab_id == Head(labs).id
             lab_slots == FindLabSlots(problem.time_slots, used_slots)
         IN IF lab_slots = <<>>
            THEN ScheduleLabs(class_id, Tail(labs), genes, used_slots)
            ELSE UNION {ScheduleLabs(class_id, Tail(labs),
                            genes \o [i \in 1..Len(lab_slots) |->
                                         Gene(class_id, lab_id, fa[1], lab_slots[i], TRUE, fa[2])],
                            used_slots \cup Range(lab_slots)) :
                        fa \in LabFacultyChoices(lab_id)}

\* the slot list without its test of used_slots
RemainingSlotsAll(used_slots) == problem.time_slots

\* remaining_slots = [s for s in available_slots if s not in used_slots] (line 204)
RemainingSlots(used_slots) ==
    SelectSeq(problem.time_slots, LAMBDA id : id \notin used_slots)

\* the theory loop of one class: set of gene lists
RECURSIVE ScheduleTheory(_, _, _, _)
ScheduleTheory(class_id, theory, genes, used_slots) ==
    IF theory = <<>> THEN {genes}
    ELSE LET subject_id == Head(theory).id
             hours_needed == Head(theory).hours_per_week
             remaining_slots == RemainingSlots(used_slots)
         IN UNION {ScheduleTheory(class_id, Tail(theory),
                       genes \o [i \in 1..Len(d) |->
                                    Gene(class_id, subject_id, f, d[i], FALSE, None)],
                       used_slots \cup Range(d)) :
                   f \in TheoryFacultyChoices(subject_id),
                   d \in ShuffleDraws(remaining_slots, hours_needed)}

LabSubjectsForClass(class_info) ==
    SelectSeq(ClassSubjects(class_info), LAMBDA s : s.subject_type = "LAB")

TheorySubjectsForClass(class_info) ==
    SelectSeq(ClassSubjects(class_info), LAMBDA s : s.subject_type = "THEORY")

\* the genes one pass of the class loop can add for a class
ClassGenes(class_info) ==
    UNION {ScheduleTheory(class_info.id, TheorySubjectsForClass(class_info),
                          r.genes, r.used_slots) :
           r \in ScheduleLabs(class_info.id, FirstN(LabSubjectsForClass(class_info), 2),
                              <<>>, {})}

RECURSIVE GenesOfClasses(_)
GenesOfClasses(cs) ==
    IF cs = <<>> THEN {<<>>}
    ELSE {g \o rest : g \in ClassGenes(Head(cs)), rest \in GenesOfClasses(Tail(cs))}

CreateRandomChromosome == {Chromosome(g, 0) : g \in GenesOfClasses(problem.classes)}

\* random.choice([]) raises IndexError: with no faculty, the first subject that
\* needs one ends the call, so no chromosome is returned
CreateRandomChromosomeRaises ==
    problem.faculties = <<>> /\ CreateRandomChromosome = {}

----------------------------------------------------------------------------
(* calculate_fitness, in units of 1/FitScale *)

\* the gene loop without the assistant's clash check of lines 291-294
RECURSIVE GeneLoopNoAssistant(_, _, _, _)
GeneLoopNoAssistant(genes, faculty_schedule, class_schedule, fitness) ==
    IF genes = <<>> THEN fitness
    ELSE LET gene == Head(genes)
             fc == IF <<gene.faculty_id, gene.time_slot_id>> \in faculty_schedule
                   THEN WEIGHTS.faculty_clash ELSE 0
             cc == IF <<gene.class_id, gene.time_slot_id>> \in class_schedule
                   THEN WEIGHTS.class_clash ELSE 0
             pref == IF SubjectCode(gene.subject_id) \in Range(Preferences(gene.faculty_id))
                     THEN WEIGHTS.faculty_preference ELSE 0
         IN GeneLoopNoAssistant(Tail(genes),
                     faculty_schedule \cup {<<gene.faculty_id, gene.time_slot_id>>},
                     class_schedule \cup {<<gene.class_id, gene.time_slot_id>>},
                     fitness + fc + cc + pref)

\* the gene loop (lines 284-314): clashes and preference bonus, genes in order
RECURSIVE GeneLoop(_, _, _, _)
GeneLoop(genes, faculty_schedule, class_schedule, fitness) ==
    IF genes = <<>> THEN fitness
    ELSE LET gene == Head(genes)
             fc == IF <<gene.faculty_id, gene.time_slot_id>> \in faculty_schedule
                   THEN WEIGHTS.faculty_clash ELSE 0
             fs1 == faculty_schedule \cup {<<gene.faculty_id, gene.time_slot_id>>}
             ac == IF gene.assistant_faculty_id # None
                      /\ <<gene.assistant_faculty_id, gene.time_slot_id>> \in fs1
                   THEN WEIGHTS.faculty_clash ELSE 0
             fs2 == IF gene.assistant_faculty_id # None
                    THEN fs1 \cup {<<gene.assistant_faculty_id, gene.time_slot_id>>}
                    ELSE fs1
             cc == IF <<gene.class_id, gene.time_slot_id>> \in class_schedule
                   THEN WEIGHTS.class_clash ELSE 0
             pref == IF SubjectCode(gene.subject_id) \in Range(Preferences(gene.faculty_id))
                     THEN WEIGHTS.faculty_preference ELSE 0
         IN GeneLoop(Tail(genes), fs2,
                     class_schedule \cup {<<gene.class_id, gene.time_slot_id>>},
                     fitness + fc + ac + cc + pref)

\* faculty_hours[faculty_id]: genes as main plus genes as assistant
FacultyHours(genes, faculty_id) ==
    Cardinality({i \in 1..Len(genes) : genes[i].faculty_id = faculty_id})
    + Cardinality({i \in 1..Len(genes) : genes[i].assistant_faculty_id = faculty_id})

\* the keys of faculty_hours
HoursKeys(genes) ==
    {genes[i].faculty_id : i \in 1..Len(genes)}
    \cup ({genes[i].assistant_faculty_id : i \in 1..Len(genes)} \ {None})

WorkloadPenalty(genes) ==
    LET pen(f) == IF FacultyHours(genes, f) > WorkloadLimit(f)
                  THEN WEIGHTS.workload_exceeded * (FacultyHours(genes, f) - WorkloadLimit(f))
                  ELSE 0
    IN SumSeq([k \in 1..Cardinality(HoursKeys(genes)) |-> pen(SetToSeq(HoursKeys(genes))[k])])

\* _check_lab_continuity
CheckLabContinuity(slot_ids) ==
    LET slots == {ts \in Range(problem.time_slots) : ts \in Range(slot_ids)}
        periods == SetToSeq({SlotPeriod(ts) : ts \in slots})
    IN /\ Len(slot_ids) = 3
       /\ Cardinality(slots) = 3
       /\ Cardinality({SlotDay(ts) : ts \in slots}) = 1
       /\ Len(periods) = 3
       /\ periods[2] = periods[1] + 1
       /\ periods[3] = periods[2] + 1

\* _check_lab_timing
CheckLabTiming(slot_ids) ==
    LET slots == {ts \in Range(problem.time_slots) : ts \in Range(slot_ids)}
    IN \/ \A ts \in slots : SlotPeriod(ts) <= 3
       \/ \A ts \in slots : SlotPeriod(ts) >= 5

\* the lab checks (lines 322-337)
LabPenalty(genes) ==
    LET labs == SelectSeq(genes, LAMBDA g : g.is_lab)
        keys == {<<labs[i].class_id, labs[i].subject_id>> : i \in 1..Len(labs)}
        slot_ids(k) == LET mine == SelectSeq(labs, LAMBDA g : g.class_id = k[1]
                                                              /\ g.subject_id = k[2])
                       IN [i \in 1..Len(mine) |-> mine[i].time_slot_id]
        pen(k) == (IF CheckLabContinuity(slot_ids(k)) THEN 0 ELSE WEIGHTS.lab_continuity)
                  + (IF CheckLabTiming(slot_ids(k)) THEN 0 ELSE WEIGHTS.lab_timing)
        RECURSIVE Total(_)
        Total(K) == IF K = {} THEN 0
                    ELSE LET k == CHOOSE k \in K : TRUE IN pen(k) + Total(K \ {k})
    IN Total(keys)

\* the workload balance term (lines 340-345), times FitScale:
\* deviation = |hours - sum/n| > 5  <=>  |n*hours - sum| > 5n
BalancePenaltyScaled(genes) ==
    LET keys == SetToSeq(HoursKeys(genes))
        n == Len(keys)
        total == SumSeq([k \in 1..n |-> FacultyHours(genes, keys[k])])
        dev(f) == Abs(n * FacultyHours(genes, f) - total)
        pen(f) == IF dev(f) > 5 * n
                  THEN WEIGHTS.workload_balance * (dev(f) - 5 * n) * (FitScale \div n)
                  ELSE 0
    IN IF n = 0 THEN 0 ELSE SumSeq([k \in 1..n |-> pen(keys[k])])

\* the rotation term charged once per (faculty, subject) instead of once per gene
RotationPenaltyPerSubject(genes) ==
    WEIGHTS.subject_rotation *
    Cardinality({<<genes[i].faculty_id, genes[i].subject_id>> : i \in
                    {i \in 1..Len(genes) :
                        SubjectCode(genes[i].subject_id) \in Range(History(genes[i].faculty_id))}})

\* the rotation loop (lines 348-352)
RotationPenalty(genes) ==
    WEIGHTS.subject_rotation *
    Cardinality({i \in 1..Len(genes) :
                    SubjectCode(genes[i].subject_id) \in Range(History(genes[i].faculty_id))})

\* the score accumulated on top of the cached fitness instead of 0.0
CalculateFitnessOnCached(chromosome) ==
    chromosome.fitness
    + FitScale * (GeneLoop(chromosome.genes, {}, {}, 0)
                  + WorkloadPenalty(chromosome.genes)
                  + LabPenalty(chromosome.genes)
                  + RotationPenalty(chromosome.genes))
    + BalancePenaltyScaled(chromosome.genes)

CalculateFitness(chromosome) ==
    FitScale * (GeneLoop(chromosome.genes, {}, {}, 0)
                + WorkloadPenalty(chromosome.genes)
                + LabPenalty(chromosome.genes)
                + RotationPenalty(chromosome.genes))
    + BalancePenaltyScaled(chromosome.genes)

\* calculate_fitness stores the score in chromosome.fitness
Evaluate(chromosome) == Chromosome(chromosome.genes, CalculateFitness(chromosome))

----------------------------------------------------------------------------
(* Selection, crossover and mutation: the sets of possible results *)

\* the values random.random() is drawn from, in percent
RandomDraws == {0, 50, 99}

\* tournament_selection: random.sample, then the first maximum of the sample
TournamentSelection(pop) ==
    LET k == IF params.tournament_size < Len(pop) THEN params.tournament_size ELSE Len(pop)
    IN {pop[i] : i \in {i \in 1..Len(pop) :
                           \E T \in SUBSET (1..Len(pop)) :
                               /\ Cardinality(T) = k
                               /\ i \in T
                               /\ \A j \in T : pop[j].fitness <= pop[i].fitness}}

GenesOfClass(genes, class_id) == SelectSeq(genes, LAMBDA g : g.class_id = class_id)

\* any number of the classes swapped
ClassesToSwapAny(all_classes) == SUBSET Range(all_classes)

\* random.sample(all_classes, len(all_classes) // 2): the possible samples, as sets
ClassesToSwap(all_classes) ==
    {S \in SUBSET Range(all_classes) : Cardinality(S) = Len(all_classes) \div 2}

\* crossover: the set of pairs <<child1, child2>>
Crossover(parent1, parent2) ==
    LET all_classes == SetToSeq({parent1.genes[i].class_id : i \in 1..Len(parent1.genes)}
                                \cup {parent2.genes[i].class_id : i \in 1..Len(parent2.genes)})
        n == Len(all_classes)
        Child(own, other, classes_to_swap) ==
            Flatten([k \in 1..n |->
                        IF all_classes[k] \in classes_to_swap
                        THEN GenesOfClass(other.genes, all_classes[k])
                        ELSE GenesOfClass(own.genes, all_classes[k])])
        kept == IF \E r \in RandomDraws : r > params.crossover_rate
                THEN {<<Copy(parent1), Copy(parent2)>>} ELSE {}
        swapped == IF \E r \in RandomDraws : ~(r > params.crossover_rate)
                   THEN {<<Chromosome(Child(parent1, parent2, sw), parent1.fitness),
                           Chromosome(Child(parent2, parent1, sw), parent2.fitness)>> :
                         sw \in ClassesToSwap(all_classes)}
                   ELSE {}
    IN kept \cup swapped

\* 'swap_slot' with gene2 drawn from the lab genes of the class as well
SwapSlotAnyGene(genes, i) ==
    LET same_class_genes == {j \in 1..Len(genes) :
                                /\ genes[j].class_id = genes[i].class_id
                                /\ genes[j] # genes[i]}
    IN IF same_class_genes = {} THEN {genes}
       ELSE {[genes EXCEPT ![i].time_slot_id = genes[j].time_slot_id,
                           ![j].time_slot_id = genes[i].time_slot_id] :
             j \in same_class_genes}

\* mutation 'swap_slot' with gene1 = genes[i]
SwapSlot(genes, i) ==
    LET same_class_genes == {j \in 1..Len(genes) :
                                /\ genes[j].class_id = genes[i].class_id
                                /\ genes[j] # genes[i]
                                /\ ~genes[j].is_lab}
    IN IF same_class_genes = {} THEN {genes}
       ELSE {[genes EXCEPT ![i].time_slot_id = genes[j].time_slot_id,
                           ![j].time_slot_id = genes[i].time_slot_id] :
             j \in same_class_genes}

\* mutation 'change_faculty' with gene = genes[i]
ChangeFaculty(genes, i) ==
    LET eligible == GetEligibleFaculty(genes[i].subject_id)
    IN IF eligible = <<>> THEN {genes}
       ELSE {[genes EXCEPT ![i].faculty_id = f] : f \in Range(eligible)}

\* mutation 'swap_subjects' with gene1 = genes[i]
SwapSubjects(genes, i) ==
    LET same_slot_genes == {j \in 1..Len(genes) :
                               /\ genes[j].time_slot_id = genes[i].time_slot_id
                               /\ genes[j].class_id # genes[i].class_id}
    IN IF same_slot_genes = {} THEN {genes}
       ELSE {[genes EXCEPT ![i].faculty_id = genes[j].faculty_id,
                           ![j].faculty_id = genes[i].faculty_id] :
             j \in same_slot_genes}

\* mutate: the set of chromosomes one call can return
Mutate(chromosome) ==
    LET genes == chromosome.genes
        skipped == IF \E r \in RandomDraws : r > params.mutation_rate
                   THEN {chromosome} ELSE {}
        mutated == IF \E r \in RandomDraws : ~(r > params.mutation_rate)
                   THEN IF genes = <<>> THEN {Copy(chromosome)}
                        ELSE {Chromosome(g, chromosome.fitness) :
                              g \in UNION {SwapSlot(genes, i) \cup ChangeFaculty(genes, i)
                                           \cup SwapSubjects(genes, i) : i \in 1..Len(genes)}}
                   ELSE {}
    IN skipped \cup mutated

\* population.sort(key=fitness, reverse=True): stable, descending
RECURSIVE SortByFitness(_)
SortByFitness(pop) ==
    IF pop = <<>> THEN <<>>
    ELSE LET i == CHOOSE i \in 1..Len(pop) :
                      /\ \A j \in 1..Len(pop) : pop[j].fitness <= pop[i].fitness
                      /\ \A j \in 1..(i-1) : pop[j].fitness < pop[i].fitness
         IN <<pop[i]>> \o SortByFitness(RemoveAt(pop, i))

\* max(population, key=fitness): the first maximum
MaxByFitness(pop) == SortByFitness(pop)[1]

----------------------------------------------------------------------------
(* generate_department_timetable: loading (lines 688-808) *)

OddNumbers == {1, 3, 5, 7}
EvenNumbers == {2, 4, 6, 8}

\* lines 692-696
SemesterNumbers == IF config = "ODD" THEN OddNumbers ELSE EvenNumbers

\* lines 699-710 for department_id
SemesterIdsOf(department) ==
    {s.id : s \in {s \in semesters : /\ s.department = department
                                      /\ s.number \in SemesterNumbers}}

\* lines 699-710 for the department of the requests
SemesterIds == SemesterIdsOf("OWN")

\* lines 713-715
LoadedClasses == SelectSeq(classes, LAMBDA c : c.semester_id \in SemesterIds)

\* lines 724-726
LoadedSubjects == SelectSeq(subjects, LAMBDA s : s.semester_id \in SemesterIds)

\* lines 735-749
LoadedFaculties ==
    LET mine == SelectSeq(faculties, LAMBDA f : f.is_active /\ f.department \in {"OWN", "NULL"})
        chosen == IF mine # <<>> THEN mine ELSE SelectSeq(faculties, LAMBDA f : f.is_active)
    IN [i \in 1..Len(chosen) |->
           [id |-> chosen[i].id, max_hours |-> WORKLOAD_LIMITS(chosen[i].designation),
            preferences |-> chosen[i].preferences]]

\* lines 777-780
LoadedPreferences ==
    LET with == {i \in 1..Len(LoadedFaculties) : LoadedFaculties[i].preferences # <<>>}
    IN [f \in {LoadedFaculties[i].id : i \in with} |->
           LET i == CHOOSE i \in with : LoadedFaculties[i].id = f
           IN LoadedFaculties[i].preferences]

\* assignment.subject.code
CodeOfSubject(subject_id) ==
    LET i == CHOOSE i \in 1..Len(subjects) : subjects[i].id = subject_id
    IN subjects[i].code

\* lines 783-789
\* the history query without its exclude(semester_instance=...)
LoadedHistoryAllTags(semester_instance) ==
    LET rows == assignments
    IN [f \in {a.faculty_id : a \in rows} |->
           LET mine == SetToSeq({a.pk : a \in {a \in rows : a.faculty_id = f}})
           IN [k \in 1..Len(mine) |->
                  CodeOfSubject((CHOOSE a \in rows : a.pk = mine[k]).subject_id)]]

LoadedHistory(semester_instance) ==
    LET rows == {a \in assignments : a.semester_instance # semester_instance}
    IN [f \in {a.faculty_id : a \in rows} |->
           LET mine == SetToSeq({a.pk : a \in {a \in rows : a.faculty_id = f}})
           IN [k \in 1..Len(mine) |->
                  CodeOfSubject((CHOOSE a \in rows : a.pk = mine[k]).subject_id)]]

ExpectedSlots == PeriodsPerDay * DaysPerWeek

NoSemestersError == "No semesters found for the active semester type"
NoClassesError == "No classes found"
NoSubjectsError == "No subjects found"
NoTimeSlotsError == "No time slots configured. Please initialize time slots first."
ExpectedSlotsError == "Invalid time slot configuration. Expected 35 teaching slots"

\* generations_run taken from the generation budget
ReportBudget(success, error, total_entries, final_fitness, generations_run, timetables) ==
    [success |-> success, error |-> error, total_entries |-> total_entries,
     classes_count |-> Len(LoadedClasses), semesters_count |-> Cardinality(SemesterIds),
     final_fitness |-> final_fitness, generations_run |-> params.generations,
     timetables |-> timetables]

Report(success, error, total_entries, final_fitness, generations_run, timetables) ==
    [success |-> success, error |-> error, total_entries |-> total_entries,
     classes_count |-> Len(LoadedClasses), semesters_count |-> Cardinality(SemesterIds),
     final_fitness |-> final_fitness, generations_run |-> generations_run,
     timetables |-> timetables]

ErrorReport(error) ==
    [success |-> FALSE, error |-> error, total_entries |-> 0, classes_count |-> 0,
     semesters_count |-> 0, final_fitness |-> 0, generations_run |-> 0, timetables |-> {}]

NoReport == ErrorReport("")

\* the checks without the comparison of the slot count with 35
LoadOutcomeNoSlotCount ==
    IF SemesterIds = {} THEN (IF config = "NONE" THEN "raise" ELSE NoSemestersError)
    ELSE IF LoadedClasses = <<>> THEN (IF config = "NONE" THEN "raise" ELSE NoClassesError)
    ELSE IF LoadedSubjects = <<>> THEN NoSubjectsError
    ELSE IF TeachingSlotRows = <<>> THEN NoTimeSlotsError
    ELSE "ok"

\* the outcome of the checks of lines 704-774: "ok", "raise" (config is None and the
\* message reads config.active_semester_type) or the error returned
LoadOutcome ==
    IF SemesterIds = {} THEN (IF config = "NONE" THEN "raise" ELSE NoSemestersError)
    ELSE IF LoadedClasses = <<>> THEN (IF config = "NONE" THEN "raise" ELSE NoClassesError)
    ELSE IF LoadedSubjects = <<>> THEN NoSubjectsError
    ELSE IF TeachingSlotRows = <<>> THEN NoTimeSlotsError
    ELSE IF Len(TeachingSlotRows) # ExpectedSlots THEN ExpectedSlotsError
    ELSE "ok"

Terminal == {"done", "failed", "raised", "aborted"}

\* no Gene objects are tracked by identity
NoObjects ==
    /\ heap = <<>>
    /\ heap_before = <<>>
    /\ refs = [parent1 |-> <<>>, parent2 |-> <<>>, child1 |-> <<>>, child2 |-> <<>>,
               mutated |-> <<>>]
    /\ opc = "none"

\* no concurrent writers
NoWriters == runs = <<>>

ResetEvolve ==
    /\ population' = <<>>
    /\ new_population' = <<>>
    /\ generation' = 0
    /\ best_ever' = Chromosome(<<>>, 0)
    /\ fitness_history' = <<>>
    /\ callback_log' = <<>>
    /\ evaluated' = {}

\* a request arrives: generate_department_timetable(department, Tag) up to ga.load_data
StartRun ==
    /\ pc \in Terminal \cup {"idle"}
    /\ run_no < MaxRuns
    /\ run_no' = run_no + 1
    /\ prev_pc' = pc
    /\ entries_before' = entries
    /\ assignments_before' = assignments
    /\ widx' = 0
    /\ ResetEvolve
    /\ IF LoadOutcome = "ok"
       THEN /\ problem' = [classes |-> LoadedClasses, subjects |-> LoadedSubjects,
                           faculties |-> LoadedFaculties, time_slots |-> TeachingSlotRows,
                           faculty_preferences |-> LoadedPreferences,
                           faculty_history |-> LoadedHistory(Tag)]
            /\ pc' = "init"
            /\ report' = NoReport
       ELSE IF LoadOutcome = "raise"
       THEN /\ problem' = EmptyProblem
            /\ pc' = "raised"
            /\ report' = NoReport
       ELSE /\ problem' = EmptyProblem
            /\ pc' = "failed"
            /\ report' = ErrorReport(LoadOutcome)
    /\ UNCHANGED <<objects, runs, tables, written, params>>

----------------------------------------------------------------------------
(* GeneticAlgorithm.evolve *)

\* lines 478-485: initialize_population, the first evaluation, best_ever
InitializePopulation ==
    /\ pc = "init"
    /\ IF CreateRandomChromosomeRaises
       THEN /\ pc' = "raised"
            /\ UNCHANGED gastate
       ELSE /\ \E pop \in [1..params.population_size -> CreateRandomChromosome] :
                LET evald == [i \in 1..params.population_size |-> Evaluate(pop[i])]
                IN /\ population' = evald
                   /\ best_ever' = MaxByFitness(evald)
                   /\ evaluated' = {evald[i].fitness : i \in 1..Len(evald)}
            /\ new_population' = <<>>
            /\ generation' = 0
            /\ fitness_history' = <<>>
            /\ callback_log' = <<>>
            /\ pc' = "generation"
    /\ UNCHANGED <<objects, runs, tables, written, params, problem, report, widx, run_no, snapshot>>

\* the elite copies of lines 509-510
Elite(sorted) == [i \in 1..params.elite_count |-> Copy(sorted[i])]

\* lines 489-510 of one pass of the generation loop: sort, track the best, report,
\* stop early or start the new population with the elite
GenerationStep ==
    /\ pc = "generation"
    /\ generation < params.generations
    /\ LET sorted == SortByFitness(population)
           current_best == sorted[1]
       IN /\ best_ever' = IF current_best.fitness > best_ever.fitness
                          THEN Copy(current_best) ELSE best_ever
          /\ fitness_history' = Append(fitness_history, current_best.fitness)
          /\ callback_log' = Append(callback_log, <<generation, current_best.fitness>>)
          /\ IF current_best.fitness >= 0
             THEN \* break, then return: the populations are locals of evolve
                  /\ pc' = "write"
                  /\ population' = <<>>
                  /\ UNCHANGED <<new_population, generation>>
             ELSE IF params.elite_count > Len(sorted)
             THEN \* population[i] with i >= len(population): IndexError
                  /\ pc' = "raised"
                  /\ population' = sorted
                  /\ UNCHANGED <<new_population, generation>>
             ELSE IF Len(Elite(sorted)) < params.population_size
             THEN /\ pc' = "breed"
                  /\ population' = sorted
                  /\ new_population' = Elite(sorted)
                  /\ UNCHANGED generation
             ELSE /\ pc' = "generation"
                  /\ population' = Elite(sorted)
                  /\ new_population' = <<>>
                  /\ generation' = generation + 1
    /\ UNCHANGED <<objects, runs, tables, written, params, problem, report, widx, run_no, snapshot,
                   evaluated>>

\* lines 513-529: one pass of the breeding loop; the pass that fills the new
\* population also replaces the old one
BreedPair ==
    /\ pc = "breed"
    /\ Len(new_population) < params.population_size
    /\ \E parent1 \in TournamentSelection(population),
          parent2 \in TournamentSelection(population) :
         \E pair \in Crossover(parent1, parent2) :
           \E m1 \in Mutate(pair[1]), m2 \in Mutate(pair[2]) :
             LET child1 == Evaluate(m1)
                 child2 == Evaluate(m2)
                 grown == IF Len(new_population) + 1 < params.population_size
                          THEN new_population \o <<child1, child2>>
                          ELSE Append(new_population, child1)
             IN /\ evaluated' = evaluated \cup {child1.fitness, child2.fitness}
                /\ IF Len(grown) < params.population_size
                   THEN /\ new_population' = grown
                        /\ UNCHANGED <<population, generation, pc>>
                   ELSE /\ population' = grown
                        /\ new_population' = <<>>
                        /\ generation' = generation + 1
                        /\ pc' = "generation"
    /\ UNCHANGED <<objects, runs, tables, written, params, problem, report, widx, run_no, snapshot,
                   best_ever, fitness_history, callback_log>>

\* line 531: the loop ran `generations` times
EvolveReturn ==
    /\ pc = "generation"
    /\ generation >= params.generations
    /\ pc' = "write"
    /\ population' = <<>>
    /\ UNCHANGED <<objects, runs, tables, written, params, problem, report, widx, run_no, snapshot,
                   new_population, generation, best_ever, fitness_history, callback_log,
                   evaluated>>

----------------------------------------------------------------------------
(* generate_department_timetable: saving (lines 812-891) *)

ClassSemester(class_id) ==
    LET i == CHOOSE i \in 1..Len(classes) : classes[i].id = class_id
    IN classes[i].semester_id

\* the filter without its class_section__semester_id__in condition
RowsOfAnyDepartment(rows, semester_ids, semester_instance) ==
    {e \in rows : e.semester_instance = semester_instance}

\* TimetableEntry.objects.filter(class_section__semester_id__in=semester_ids,
\* semester_instance=semester_instance) (lines 813-816)
RowsOfPair(rows, semester_ids, semester_instance) ==
    {e \in rows : /\ ClassSemester(e.class_section_id) \in semester_ids
                  /\ e.semester_instance = semester_instance}

\* the filter without its semester_instance condition
RowsToDeleteAnyTag(rows, semester_instance) ==
    {e \in rows : ClassSemester(e.class_section_id) \in SemesterIds}

\* the rows the filter of lines 813-816 selects for the department of the requests
RowsToDelete(rows, semester_instance) == RowsOfPair(rows, SemesterIds, semester_instance)

\* TimetableEntry.objects.create (lines 829-837)
EntryRow(pk, gene, semester_instance) ==
    [pk |-> pk, class_section_id |-> gene.class_id, subject_id |-> gene.subject_id,
     faculty_id |-> gene.faculty_id, time_slot_id |-> gene.time_slot_id,
     semester_instance |-> semester_instance, is_lab_session |-> gene.is_lab,
     assistant_faculty_id |-> gene.assistant_faculty_id]

AssignmentKey(a) == <<a.faculty_id, a.subject_id, a.semester_instance, a.class_section_id>>

\* create instead of get_or_create
AlwaysCreate(st, faculty_id, subject_id, semester_instance, class_section_id, is_main) ==
    [rows |-> st.rows \cup {[pk |-> st.pk, faculty_id |-> faculty_id,
                              subject_id |-> subject_id,
                              semester_instance |-> semester_instance,
                              class_section_id |-> class_section_id,
                              is_main |-> is_main]},
     pk |-> st.pk + 1]

\* FacultySubjectAssignment.objects.get_or_create(..., defaults={'is_main': is_main}):
\* [rows, pk] after the call
GetOrCreate(st, faculty_id, subject_id, semester_instance, class_section_id, is_main) ==
    IF \E a \in st.rows :
           AssignmentKey(a) = <<faculty_id, subject_id, semester_instance, class_section_id>>
    THEN st
    ELSE [rows |-> st.rows \cup {[pk |-> st.pk, faculty_id |-> faculty_id,
                                  subject_id |-> subject_id,
                                  semester_instance |-> semester_instance,
                                  class_section_id |-> class_section_id,
                                  is_main |-> is_main]},
          pk |-> st.pk + 1]

\* lines 861-876 for one gene; `upto` = 2 runs both calls, 1 only the first, 0 none
SaveAssignments(gene, semester_instance, upto) ==
    LET st0 == [rows |-> assignments, pk |-> next_pk.assignment]
        st1 == IF upto >= 1
               THEN GetOrCreate(st0, gene.faculty_id, gene.subject_id, semester_instance,
                                gene.class_id, TRUE)
               ELSE st0
        st2 == IF upto >= 2 /\ gene.assistant_faculty_id # None
               THEN GetOrCreate(st1, gene.assistant_faculty_id, gene.subject_id,
                                semester_instance, gene.class_id, FALSE)
               ELSE st1
    IN st2

\* the delete is skipped
DeleteNothing(rows, selected) == rows

\* QuerySet.delete()
DeleteRows(rows, selected) == rows \ selected

\* lines 813-816
WriterDelete ==
    /\ pc = "write"
    /\ entries' = DeleteRows(entries, RowsToDelete(entries, Tag))
    /\ widx' = 0
    /\ pc' = "save"
    /\ callback_log' = <<>>
    /\ evaluated' = {}
    /\ UNCHANGED <<objects, runs, tables, assignments, next_pk, params, problem, report, run_no, snapshot,
                   population, new_population, generation, best_ever, fitness_history>>

\* one pass of the loop of lines 828-876
WriterSaveGene ==
    /\ pc = "save"
    /\ widx < Len(best_ever.genes)
    /\ LET gene == best_ever.genes[widx + 1]
           st == SaveAssignments(gene, Tag, 2)
       IN /\ entries' = entries \cup {EntryRow(next_pk.entry, gene, Tag)}
          /\ assignments' = st.rows
          /\ next_pk' = [entry |-> next_pk.entry + 1, assignment |-> st.pk]
    /\ widx' = widx + 1
    /\ UNCHANGED <<objects, runs, tables, params, problem, pc, report, run_no, snapshot, gastate>>

\* timetables_by_semester: entry_count per class (lines 841-858)
Timetables(genes) ==
    {[semester_id |-> ClassSemester(c), class_id |-> c,
      entry_count |-> Len(GenesOfClass(genes, c))] :
     c \in {genes[i].class_id : i \in 1..Len(genes)}}

\* lines 878-891
WriterReturn ==
    /\ pc = "save"
    /\ widx = Len(best_ever.genes)
    /\ report' = Report(TRUE, "", widx, best_ever.fitness, Len(fitness_history),
                        Timetables(best_ever.genes))
    /\ pc' = "done"
    /\ UNCHANGED <<objects, runs, tables, written, params, problem, widx, run_no, snapshot, gastate>>

\* a store error at one of the writer's statements ends the request with an
\* exception; the statements already executed were each committed on their own
\* (no transaction.atomic around lines 812-876)
StoreError ==
    /\ \/ /\ pc = "write"
          /\ UNCHANGED written
       \/ /\ pc = "save"
          /\ widx < Len(best_ever.genes)
          /\ \E failing \in {"create", "get_or_create_main", "get_or_create_assistant"} :
               LET gene == best_ever.genes[widx + 1]
                   upto == IF failing = "get_or_create_assistant" THEN 1 ELSE 0
                   st == SaveAssignments(gene, Tag, upto)
               IN /\ failing = "get_or_create_assistant" => gene.assistant_faculty_id # None
                  /\ entries' = IF failing = "create" THEN entries
                                ELSE entries \cup {EntryRow(next_pk.entry, gene, Tag)}
                  /\ assignments' = st.rows
                  /\ next_pk' = [entry |-> IF failing = "create" THEN next_pk.entry
                                           ELSE next_pk.entry + 1,
                                 assignment |-> st.pk]
    /\ pc' = "aborted"
    /\ UNCHANGED <<objects, runs, tables, params, problem, report, widx, run_no, snapshot, gastate>>

----------------------------------------------------------------------------
(* The store contents and constructor arguments the requests are run on *)

Sem(id, number, department) == [id |-> id, number |-> number, department |-> department]
Cls(id, semester_id) == [id |-> id, semester_id |-> semester_id]
Sub(id, code, subject_type, hours_per_week, semester_id) ==
    [id |-> id, code |-> code, subject_type |-> subject_type,
     hours_per_week |-> hours_per_week, semester_id |-> semester_id]
Fac(id, designation, preferences, is_active, department) ==
    [id |-> id, designation |-> designation, preferences |-> preferences,
     is_active |-> is_active, department |-> department]
Asg(pk, faculty_id, subject_id, semester_instance, class_section_id, is_main) ==
    [pk |-> pk, faculty_id |-> faculty_id, subject_id |-> subject_id,
     semester_instance |-> semester_instance, class_section_id |-> class_section_id,
     is_main |-> is_main]
Params(population_size, generations, elite_count, tournament_size) ==
    [population_size |-> population_size, generations |-> generations,
     crossover_rate |-> 80, mutation_rate |-> 10,
     elite_count |-> elite_count, tournament_size |-> tournament_size]

AllSlots == TeachingIds \cup LunchIds

\* S3 and S4 of the department, S3 of another department
AllSemesters == {Sem(1, 3, "OWN"), Sem(2, 4, "OWN"), Sem(9, 3, "OTHER")}
AllClasses == <<Cls(1, 1), Cls(4, 2), Cls(9, 9)>>
AllSubjects == <<Sub(2, "CS302L", "LAB", 3, 1), Sub(4, "CS401", "THEORY", 1, 2),
                 Sub(9, "ME301", "THEORY", 3, 9)>>
AllFaculties == <<Fac(1, "ASSISTANT_PROFESSOR", <<>>, TRUE, "OWN"),
                  Fac(2, "PROFESSOR", <<>>, TRUE, "NULL"),
                  Fac(3, "ASSOCIATE_PROFESSOR", <<>>, FALSE, "OWN")>>

\* rows left by earlier timetables: same tag, another tag, another department
OldEntries ==
    {EntryRow(1, Gene(1, 2, 1, 4, TRUE, 2), Tag),
     EntryRow(2, Gene(1, 2, 1, 5, TRUE, None), OtherTag),
     EntryRow(3, Gene(9, 9, 1, 4, FALSE, None), Tag),
     EntryRow(4, Gene(4, 4, 2, 1, FALSE, None), Tag)}

\* the rotation ledger: two rows of an earlier term, one row of this term
OldAssignments ==
    {Asg(1, 1, 9, OtherTag, 9, TRUE), Asg(2, 2, 2, OtherTag, 1, TRUE),
     Asg(3, 2, 2, Tag, 1, FALSE)}

InitRequest ==
    /\ entries = OldEntries
    /\ assignments = OldAssignments
    /\ next_pk = [entry |-> 5, assignment |-> 4]
    /\ problem = EmptyProblem
    /\ pc = "idle"
    /\ report = NoReport
    /\ population = <<>>
    /\ new_population = <<>>
    /\ generation = 0
    /\ best_ever = Chromosome(<<>>, 0)
    /\ fitness_history = <<>>
    /\ callback_log = <<>>
    /\ evaluated = {}
    /\ widx = 0
    /\ run_no = 0
    /\ entries_before = OldEntries
    /\ assignments_before = OldAssignments
    /\ prev_pc = "idle"
    /\ NoObjects
    /\ NoWriters

Init ==
    /\ config \in {"ODD", "EVEN", "NONE"}
    /\ semesters \in {AllSemesters, {Sem(1, 3, "OWN"), Sem(9, 3, "OTHER")}, {Sem(9, 3, "OTHER")}}
    /\ classes \in {AllClasses, <<Cls(9, 9)>>}
    /\ subjects \in {AllSubjects, <<Sub(9, "ME301", "THEORY", 3, 9)>>}
    /\ faculties \in {AllFaculties, <<Fac(3, "ASSOCIATE_PROFESSOR", <<>>, FALSE, "OWN")>>}
    /\ time_slots \in {AllSlots, AllSlots \ {7}, LunchIds, AllSlots \cup {ExtraSlotId}}
    /\ params \in {Params(2, MaxGenerations, 1, 2)}
    /\ InitRequest

Next ==
    \/ StartRun
    \/ InitializePopulation
    \/ GenerationStep
    \/ BreedPair
    \/ EvolveReturn
    \/ WriterDelete
    \/ WriterSaveGene
    \/ WriterReturn
    \/ StoreError

Spec == Init /\ [][Next]_vars

----------------------------------------------------------------------------
(* evolve on its own: the state after ga.load_data, for several problems and *)
(* constructor arguments                                                    *)

\* one class with a lab and a one-hour theory subject, one faculty who taught
\* the theory subject in an earlier term
LabTheoryProblem ==
    [semesters |-> {Sem(1, 3, "OWN")},
     classes |-> <<Cls(1, 1)>>,
     subjects |-> <<Sub(1, "CS301", "THEORY", 1, 1), Sub(2, "CS302L", "LAB", 3, 1)>>,
     faculties |-> <<Fac(1, "ASSISTANT_PROFESSOR", <<>>, TRUE, "OWN")>>,
     assignments |-> {Asg(1, 1, 1, OtherTag, 1, TRUE)}]

\* two classes of one semester, one theory hour each, two faculty
TwoClassProblem ==
    [semesters |-> {Sem(1, 3, "OWN")},
     classes |-> <<Cls(1, 1), Cls(2, 1)>>,
     subjects |-> <<Sub(1, "CS301", "THEORY", 1, 1)>>,
     faculties |-> <<Fac(1, "ASSISTANT_PROFESSOR", <<>>, TRUE, "OWN"),
                     Fac(2, "PROFESSOR", <<>>, TRUE, "NULL")>>,
     assignments |-> {}]

\* two semesters, one faculty who prefers every subject: ten genes in all
PreferredProblem ==
    [semesters |-> {Sem(1, 3, "OWN"), Sem(3, 5, "OWN")},
     classes |-> <<Cls(1, 1), Cls(3, 3)>>,
     subjects |-> <<Sub(1, "CS301", "THEORY", 3, 1), Sub(2, "CS302L", "LAB", 3, 1),
                    Sub(3, "CS303L", "LAB", 3, 1), Sub(5, "CS501", "THEORY", 1, 3)>>,
     faculties |-> <<Fac(1, "ASSISTANT_PROFESSOR",
                         <<"CS301", "CS302L", "CS303L", "CS501">>, TRUE, "OWN")>>,
     assignments |-> {}]

\* one class whose subjects need 12 hours (two labs and a six-hour theory subject),
\* one PROFESSOR, with or without preferences for all three subjects
ProfessorProblem(preferences) ==
    [semesters |-> {Sem(1, 3, "OWN")},
     classes |-> <<Cls(1, 1)>>,
     subjects |-> <<Sub(1, "CS301", "THEORY", 6, 1), Sub(2, "CS302L", "LAB", 3, 1),
                    Sub(3, "CS303L", "LAB", 3, 1)>>,
     faculties |-> <<Fac(1, "PROFESSOR", preferences, TRUE, "OWN")>>,
     assignments |-> {}]

\* one class with a theory hour and an ELECTIVE subject, one faculty
ElectiveProblem ==
    [semesters |-> {Sem(1, 3, "OWN")},
     classes |-> <<Cls(1, 1)>>,
     subjects |-> <<Sub(1, "CS301", "THEORY", 1, 1), Sub(7, "CS3E1", "ELECTIVE", 3, 1)>>,
     faculties |-> <<Fac(1, "ASSISTANT_PROFESSOR", <<>>, TRUE, "OWN")>>,
     assignments |-> {}]

\* one class with one lab, two faculty
LabPairProblem ==
    [semesters |-> {Sem(1, 3, "OWN")},
     classes |-> <<Cls(1, 1)>>,
     subjects |-> <<Sub(2, "CS302L", "LAB", 3, 1)>>,
     faculties |-> <<Fac(1, "ASSISTANT_PROFESSOR", <<>>, TRUE, "OWN"),
                     Fac(2, "PROFESSOR", <<>>, TRUE, "NULL")>>,
     assignments |-> {}]

\* one class whose only subject is an ELECTIVE: every chromosome is empty
ElectiveOnlyProblem ==
    [semesters |-> {Sem(1, 3, "OWN")},
     classes |-> <<Cls(1, 1)>>,
     subjects |-> <<Sub(7, "CS3E1", "ELECTIVE", 3, 1)>>,
     faculties |-> <<Fac(1, "ASSISTANT_PROFESSOR", <<>>, TRUE, "OWN")>>,
     assignments |-> {}]

\* one class with three labs, two faculty
ThreeLabProblem ==
    [semesters |-> {Sem(1, 3, "OWN")},
     classes |-> <<Cls(1, 1)>>,
     subjects |-> <<Sub(2, "CS302L", "LAB", 3, 1), Sub(3, "CS303L", "LAB", 3, 1),
                    Sub(4, "CS304L", "LAB", 3, 1)>>,
     faculties |-> <<Fac(1, "ASSISTANT_PROFESSOR", <<>>, TRUE, "OWN"),
                     Fac(2, "PROFESSOR", <<>>, TRUE, "NULL")>>,
     assignments |-> {}]

\* elite_count = 0 is accepted by the constructor (__init__, lines 74-88, validates nothing)
EvolveParams(sizes, elites) ==
    {Params(p, g, e, t) : p \in sizes, g \in 1..MaxGenerations, e \in elites, t \in 1..2}

\* the ten-gene and twelve-gene problems are run with a population of one, and so
\* is elite_count = 0
EvolveProblems ==
    {[tables |-> LabTheoryProblem,
      params |-> EvolveParams({1, 2}, {1, 2}) \cup EvolveParams({1}, {0})],
     [tables |-> TwoClassProblem,
      params |-> EvolveParams({1, 2}, {1, 2}) \cup EvolveParams({1}, {0})],
     [tables |-> PreferredProblem, params |-> EvolveParams({1}, {1, 2})],
     [tables |-> ProfessorProblem(<<>>), params |-> EvolveParams({1}, {1})],
     [tables |-> ProfessorProblem(<<"CS301", "CS302L", "CS303L">>),
      params |-> EvolveParams({1}, {1})],
     [tables |-> ElectiveProblem, params |-> EvolveParams({1, 2}, {1})],
     [tables |-> ThreeLabProblem, params |-> EvolveParams({1}, {1})]}

InitEvolve ==
    /\ config = "ODD"
    /\ time_slots = AllSlots
    /\ \E sc \in EvolveProblems :
         /\ semesters = sc.tables.semesters
         /\ classes = sc.tables.classes
         /\ subjects = sc.tables.subjects
         /\ faculties = sc.tables.faculties
         /\ assignments = sc.tables.assignments
         /\ assignments_before = sc.tables.assignments
         /\ params \in sc.params
    /\ entries = {}
    /\ entries_before = {}
    /\ next_pk = [entry |-> 1, assignment |-> 2]
    /\ problem = [classes |-> LoadedClasses, subjects |-> LoadedSubjects,
                  faculties |-> LoadedFaculties, time_slots |-> TeachingSlotRows,
                  faculty_preferences |-> LoadedPreferences,
                  faculty_history |-> LoadedHistory(Tag)]
    /\ pc = "init"
    /\ report = NoReport
    /\ population = <<>>
    /\ new_population = <<>>
    /\ generation = 0
    /\ best_ever = Chromosome(<<>>, 0)
    /\ fitness_history = <<>>
    /\ callback_log = <<>>
    /\ evaluated = {}
    /\ widx = 0
    /\ run_no = 1
    /\ prev_pc = "idle"
    /\ NoObjects
    /\ NoWriters

NextEvolve ==
    \/ InitializePopulation
    \/ GenerationStep
    \/ BreedPair
    \/ EvolveReturn

SpecEvolve == InitEvolve /\ [][NextEvolve]_vars

----------------------------------------------------------------------------
(* Properties *)

RequestEnded == pc \in Terminal

\* the TimetableEntry rows of the department's included semesters under the tag
DeptTagRows(rows) ==
    {e \in rows : /\ e.semester_instance = Tag
                  /\ \E i \in 1..Len(classes) :
                       /\ classes[i].id = e.class_section_id
                       /\ classes[i].semester_id \in SemesterIds}

RowGene(e) == Gene(e.class_section_id, e.subject_id, e.faculty_id, e.time_slot_id,
                   e.is_lab_session, e.assistant_faculty_id)

StoreUnchanged == entries = entries_before /\ assignments = assignments_before

\* every chromosome the engine currently holds
Chromosomes == Range(population) \cup Range(new_population) \cup {best_ever}

\* C1: when a store error ends the writer, the department's rows under the tag are
\* exactly the rows that existed before the request.
C1_AbortKeepsPriorTimetable ==
    pc = "aborted" => DeptTagRows(entries) = DeptTagRows(entries_before)

HasFacultyClash(genes) ==
    \E i, j \in 1..Len(genes) : /\ i # j
                                /\ genes[i].faculty_id = genes[j].faculty_id
                                /\ genes[i].time_slot_id = genes[j].time_slot_id

\* C2: the chromosome evolve returns has strictly negative fitness whenever two of
\* its genes name the same faculty at the same time slot.
C2_ClashMeansNegative ==
    pc = "write" => (HasFacultyClash(best_ever.genes) => best_ever.fitness < 0)

\* C3: every gene of every chromosome the engine holds is on one of the 35
\* teaching slots loaded into the problem, never on a lunch or unknown slot.
C3_GenesOnTeachingSlots ==
    \A c \in Chromosomes : \A i \in 1..Len(c.genes) :
        /\ c.genes[i].time_slot_id \in Range(problem.time_slots)
        /\ c.genes[i].time_slot_id \in TeachingIds
        /\ SlotType(c.genes[i].time_slot_id) # "LUNCH"

\* C3 witness: a bred population holds a chromosome whose lab gene was moved off
\* its block by swap_slot.
C3_Witness ==
    /\ pc = "generation"
    /\ generation >= 1
    /\ \E k \in 1..Len(population) : \E i \in 1..Len(population[k].genes) :
         /\ population[k].genes[i].is_lab
         /\ SlotPeriod(population[k].genes[i].time_slot_id) = 4

\* C4: in every run of evolve the returned fitness history, which holds the value
\* passed to the callback for each generation, is non-decreasing from one
\* generation to the next.
C4_HistoryNonDecreasing ==
    pc = "write" =>
        /\ \A g \in 1..(Len(fitness_history) - 1) :
               fitness_history[g + 1] >= fitness_history[g]
        /\ callback_log = [g \in 1..Len(fitness_history) |-> <<g - 1, fitness_history[g]>>]

\* C5: after a successful request the department's rows under the tag correspond
\* one-to-one to the genes of the best chromosome, total_entries is their number,
\* and every other row is unchanged.
C5_RowsAreTheBestGenes ==
    pc = "done" =>
        /\ report.success
        /\ \A e \in DeptTagRows(entries) : RowGene(e) \in Range(best_ever.genes)
        /\ \A i \in 1..Len(best_ever.genes) :
               Cardinality({e \in DeptTagRows(entries) : RowGene(e) = best_ever.genes[i]})
               = Cardinality({j \in 1..Len(best_ever.genes) :
                                 best_ever.genes[j] = best_ever.genes[i]})
        /\ report.total_entries = Len(best_ever.genes)
        /\ report.total_entries = Cardinality(DeptTagRows(entries))
        /\ entries \ DeptTagRows(entries) = entries_before \ DeptTagRows(entries_before)

\* C5 witness: a successful request with negative final fitness replaced old rows
\* by rows with an assistant.
C5_Witness ==
    /\ pc = "done"
    /\ best_ever.fitness < 0
    /\ DeptTagRows(entries_before) # {}
    /\ \E e \in DeptTagRows(entries) : e.assistant_faculty_id # None
    /\ entries \ DeptTagRows(entries) # {}

\* C6: after a second successful request on unchanged input none of the rows the
\* first one inserted remains and the number of rows is the same.
C6_SecondRunReplaces ==
    (pc = "done" /\ run_no >= 2 /\ prev_pc = "done") =>
        /\ DeptTagRows(entries) \cap DeptTagRows(entries_before) = {}
        /\ {e.pk : e \in DeptTagRows(entries)} \cap {e.pk : e \in DeptTagRows(entries_before)} = {}
        /\ Cardinality(DeptTagRows(entries)) = Cardinality(DeptTagRows(entries_before))

\* C6 witness: two successful requests in sequence, each with rows.
C6_Witness ==
    /\ pc = "done"
    /\ run_no >= 2
    /\ prev_pc = "done"
    /\ DeptTagRows(entries) # {}

\* C7: each (faculty, subject, class, tag) key is in at most one
\* FacultySubjectAssignment row, and a row that existed before a request is left
\* as it was, is_main included.
C7_AssignmentKeysUnique ==
    /\ \A a, b \in assignments : AssignmentKey(a) = AssignmentKey(b) => a = b
    /\ assignments_before \subseteq assignments

\* C7 witness: the saved best chromosome names as main faculty one whose row for
\* the same key already existed with is_main = FALSE.
C7_Witness ==
    /\ pc = "done"
    /\ \E a \in assignments_before : \E i \in 1..Len(best_ever.genes) :
         /\ ~a.is_main
         /\ a.semester_instance = Tag
         /\ best_ever.genes[i].faculty_id = a.faculty_id
         /\ best_ever.genes[i].subject_id = a.subject_id
         /\ best_ever.genes[i].class_id = a.class_section_id
    /\ Cardinality(assignments) > Cardinality(assignments_before)

TeachingSlotCount == Len(TeachingSlotRows)

\* C8 as stated: with a slot count other than 35 the request returns success=false
\* with the error naming the expected 35 slots, and the store is unchanged.
C8_Original ==
    (RequestEnded /\ TeachingSlotCount # ExpectedSlots) =>
        /\ pc = "failed"
        /\ ~report.success
        /\ report.error = ExpectedSlotsError
        /\ StoreUnchanged

\* C8 amended: with a slot count other than 35 no request succeeds and the store is
\* unchanged; the report is success=false naming the expected 35 slots when the
\* earlier checks pass (semesters of the selected parity, a class, a subject) and
\* at least one teaching slot exists; with no teaching slot the error is the
\* "No time slots configured" one.
C8_SlotCountGuard ==
    (RequestEnded /\ TeachingSlotCount # ExpectedSlots) =>
        /\ pc \in {"failed", "raised"}
        /\ StoreUnchanged
        /\ (SemesterIds # {} /\ LoadedClasses # <<>> /\ LoadedSubjects # <<>>) =>
               /\ pc = "failed"
               /\ ~report.success
               /\ report.error = IF TeachingSlotCount = 0 THEN NoTimeSlotsError
                                 ELSE ExpectedSlotsError

\* C8 witness: a request on a store with 34 teaching slots was refused.
C8_Witness ==
    /\ pc = "failed"
    /\ TeachingSlotCount = ExpectedSlots - 1
    /\ report.error = ExpectedSlotsError
    /\ entries # {}

NoActiveFaculty == \A i \in 1..Len(faculties) : ~faculties[i].is_active

\* C9: with no semesters of the active parity, no classes, no subjects, no active
\* faculty or no SystemConfiguration row, the request returns success=false with
\* an error message, does not raise, and writes nothing.
C9_MissingDataIsReported ==
    (RequestEnded /\ (\/ SemesterIds = {}
                      \/ LoadedClasses = <<>>
                      \/ LoadedSubjects = <<>>
                      \/ NoActiveFaculty
                      \/ config = "NONE")) =>
        /\ pc = "failed"
        /\ ~report.success
        /\ report.error # ""
        /\ StoreUnchanged

PositiveParams ==
    /\ params.population_size >= 1
    /\ params.generations >= 1
    /\ params.elite_count >= 1
    /\ params.tournament_size >= 1
    /\ params.crossover_rate \in 0..100
    /\ params.mutation_rate \in 0..100

WellFormedProblem ==
    /\ problem.classes # <<>>
    /\ problem.subjects # <<>>
    /\ problem.faculties # <<>>
    /\ Len(problem.time_slots) = ExpectedSlots

\* C10: on a problem with a class, a subject, a faculty and the 35 teaching slots,
\* evolve never raises, whatever positive constructor arguments it runs with.
C10_EvolveNeverRaises == (WellFormedProblem /\ PositiveParams) => pc # "raised"

----------------------------------------------------------------------------
(* Lab sessions, workload, coverage *)

\* the genes of the saved chromosome for one (class, subject) pair
GenesOf(genes, class_id, subject_id) ==
    SelectSeq(genes, LAMBDA g : g.class_id = class_id /\ g.subject_id = subject_id)

\* three slots of one day on consecutive periods, all in 1-3 or all in 5-7
IsLabSession(slot_ids) ==
    /\ Cardinality(slot_ids) = 3
    /\ \E d \in 0..(DaysPerWeek - 1) : \E first \in {1, 5} :
         {<<SlotDay(t), SlotPeriod(t)>> : t \in slot_ids}
         = {<<d, first>>, <<d, first + 1>>, <<d, first + 2>>}

\* one class, one LAB subject, two eligible faculty
OneLabTwoFaculty ==
    /\ Len(problem.classes) = 1
    /\ Len(problem.subjects) = 1
    /\ problem.subjects[1].subject_type = "LAB"
    /\ Cardinality(Range(GetEligibleFaculty(problem.subjects[1].id))) = 2

\* C11: for one class, one LAB subject and two eligible faculty the saved best
\* chromosome has 6 genes for the lab, forming two sessions of three consecutive
\* periods of one day within periods 1-3 or 5-7, and the final fitness is >= 0.
C11_TwoLabSessions ==
    (pc = "done" /\ OneLabTwoFaculty) =>
        LET lab == GenesOf(best_ever.genes, problem.classes[1].id, problem.subjects[1].id)
            slots == {lab[i].time_slot_id : i \in 1..Len(lab)}
        IN /\ Len(lab) = 6
           /\ \E a, b \in SUBSET slots :
                /\ a \cup b = slots
                /\ a \cap b = {}
                /\ IsLabSession(a)
                /\ IsLabSession(b)
           /\ report.final_fitness >= 0

\* the chromosomes the engine has produced so far
Produced ==
    Range(population) \cup Range(new_population)
    \cup (IF pc = "init" THEN {} ELSE {best_ever})

\* hours of a faculty above the cap of its designation
HoursAboveCap(genes, f) ==
    LET row == CHOOSE r \in Range(faculties) : r.id = f
        cap == CASE row.designation = "PROFESSOR" -> 10
                 [] row.designation = "ASSOCIATE_PROFESSOR" -> 15
                 [] row.designation = "ASSISTANT_PROFESSOR" -> 23
                 [] OTHER -> 20
        hours == Cardinality({i \in 1..Len(genes) : genes[i].faculty_id = f})
                 + Cardinality({i \in 1..Len(genes) : genes[i].assistant_faculty_id = f})
    IN IF hours > cap THEN hours - cap ELSE 0

\* the hours the loaded classes and subjects ask for: three per lab, hours_per_week
\* per theory subject
DemandedHours ==
    SumSeq([c \in 1..Len(problem.classes) |->
              SumSeq([k \in 1..Len(ClassSubjects(problem.classes[c])) |->
                        IF ClassSubjects(problem.classes[c])[k].subject_type = "LAB"
                        THEN 3 ELSE ClassSubjects(problem.classes[c])[k].hours_per_week])])

SingleProfessor == Len(faculties) = 1 /\ faculties[1].designation = "PROFESSOR"

\* C12: the workload term of every chromosome is -500 per hour above the cap of
\* each faculty, and with a single PROFESSOR and 12 demanded hours the returned
\* chromosome carries a workload penalty of exactly -1000 and has fitness < 0.
C12_WorkloadPenalty ==
    /\ \A c \in Produced :
          WorkloadPenalty(c.genes)
          = SumSeq([i \in 1..Len(faculties) |-> -500 * HoursAboveCap(c.genes, faculties[i].id)])
    /\ (pc = "write" /\ SingleProfessor /\ DemandedHours = 12) =>
          /\ WorkloadPenalty(best_ever.genes) = -1000
          /\ best_ever.fitness < 0

\* C13: every chromosome the engine produces has at least one gene for each class
\* and each subject of the class's semester, whatever the subject's kind.
C13_EveryPairScheduled ==
    \A c \in Produced : \A k \in 1..Len(problem.classes) :
        \A j \in 1..Len(ClassSubjects(problem.classes[k])) :
            GenesOf(c.genes, problem.classes[k].id,
                    ClassSubjects(problem.classes[k])[j].id) # <<>>

C19_ReturnsAllTimeBest ==
    (pc = "write" /\ PositiveParams) =>
        /\ \A f \in evaluated : best_ever.fitness >= f
        /\ \A g \in 1..Len(fitness_history) : best_ever.fitness >= fitness_history[g]
        /\ \E g \in 1..Len(fitness_history) : best_ever.fitness = fitness_history[g]

\* C20: evolve stops at the first generation whose best fitness is >= 0 and
\* otherwise runs `generations` generations: every history entry but the last is
\* < 0, the callback gets one call per entry with indices 0, 1, 2, ..., and
\* generations_run is the history length, at most `generations`.
C20_StopsAtFirstFeasible ==
    /\ pc = "write" =>
          /\ \A g \in 1..(Len(fitness_history) - 1) : fitness_history[g] < 0
          /\ Len(fitness_history) <= params.generations
          /\ (Len(fitness_history) < params.generations =>
                 fitness_history[Len(fitness_history)] >= 0)
          /\ Len(callback_log) = Len(fitness_history)
          /\ \A g \in 1..Len(callback_log) :
                 callback_log[g] = <<g - 1, fitness_history[g]>>
    /\ pc = "done" =>
          /\ report.generations_run = Len(fitness_history)
          /\ report.generations_run <= params.generations

\* C20 witness: a request that stopped before its budget, after one that used it up.
C20_Witness ==
    /\ pc = "done"
    /\ report.generations_run < params.generations
    /\ fitness_history[Len(fitness_history)] >= 0
    /\ run_no = 2

----------------------------------------------------------------------------
(* Requests of a department with one class, one three-hour theory subject and *)
(* one faculty                                                                *)

TheoryFaculties ==
    {<<Fac(1, "ASSISTANT_PROFESSOR", <<>>, TRUE, "OWN")>>,
     <<Fac(1, "ASSISTANT_PROFESSOR", <<"CS301">>, TRUE, "OWN")>>,
     <<Fac(1, "ASSISTANT_PROFESSOR", <<"CS999">>, TRUE, "OWN")>>}

\* the faculty did or did not teach the subject in an earlier term
TheoryAssignments == {{}, {Asg(1, 1, 1, OtherTag, 1, TRUE)}}

InitTheory ==
    /\ config = "ODD"
    /\ semesters = {Sem(1, 3, "OWN")}
    /\ classes = <<Cls(1, 1)>>
    /\ subjects = <<Sub(1, "CS301", "THEORY", 3, 1)>>
    /\ faculties \in TheoryFaculties
    /\ time_slots = AllSlots
    /\ params = Params(2, MaxGenerations, 1, 2)
    /\ entries = {}
    /\ assignments \in TheoryAssignments
    /\ next_pk = [entry |-> 1, assignment |-> 2]
    /\ problem = EmptyProblem
    /\ pc = "idle"
    /\ report = NoReport
    /\ population = <<>>
    /\ new_population = <<>>
    /\ generation = 0
    /\ best_ever = Chromosome(<<>>, 0)
    /\ fitness_history = <<>>
    /\ callback_log = <<>>
    /\ evaluated = {}
    /\ widx = 0
    /\ run_no = MaxRuns - 1   \* one request
    /\ entries_before = entries
    /\ assignments_before = assignments
    /\ prev_pc = "idle"
    /\ NoObjects
    /\ NoWriters

SpecTheory == InitTheory /\ [][Next]_vars

\* the request ran to its end without a store error
Returned == pc \in {"done", "failed", "raised"}

PrefersSubject == "CS301" \in Range(faculties[1].preferences)

TaughtBefore ==
    \E a \in assignments : /\ a.faculty_id = faculties[1].id
                            /\ a.subject_id = subjects[1].id
                            /\ a.semester_instance # Tag

ThreeEntriesWritten ==
    /\ pc = "done"
    /\ report.success
    /\ report.total_entries = 3
    /\ Cardinality(DeptTagRows(entries)) = 3
    /\ Cardinality({e.time_slot_id : e \in DeptTagRows(entries)}) = 3

\* C16 as stated: the run succeeds, 3 entries on three distinct slots are written,
\* the final fitness is >= 0, and >= 300 when the faculty prefers the subject.
C16_Original ==
    Returned =>
        /\ ThreeEntriesWritten
        /\ report.final_fitness >= 0
        /\ PrefersSubject => report.final_fitness >= 300 * FitScale

\* C16 amended: the run succeeds and 3 entries on three distinct slots are
\* written; the final fitness is 300 if the faculty prefers the subject, less 150
\* if the faculty has an assignment of the subject under another tag, so it is
\* >= 0, and >= 300 with the preference, when there is no such assignment.
C16_TheoryRun ==
    Returned =>
        /\ ThreeEntriesWritten
        /\ report.final_fitness
           = FitScale * ((IF PrefersSubject THEN 300 ELSE 0) - (IF TaughtBefore THEN 150 ELSE 0))
        /\ ~TaughtBefore => /\ report.final_fitness >= 0
                            /\ PrefersSubject => report.final_fitness >= 300 * FitScale

\* C16 witness: a request for a faculty who prefers the subject and taught it before
\* wrote three entries with fitness 150, found in the first generation.
C16_Witness ==
    /\ ThreeEntriesWritten
    /\ PrefersSubject
    /\ TaughtBefore
    /\ report.final_fitness = 150 * FitScale
    /\ report.generations_run = 1

----------------------------------------------------------------------------
(* Chromosome.copy and crossover on Gene objects with identity *)

\* the new list holds the same Gene objects
ShareGenes(h, ids) == [heap |-> h, ids |-> ids]

\* [Gene(**g.__dict__) for g in genes]: a new Gene object per listed object, with the
\* same field values; the heap after the allocations and the new list
CopyGenes(h, ids) ==
    [heap |-> h \o [i \in 1..Len(ids) |-> h[ids[i]]],
     ids |-> [i \in 1..Len(ids) |-> Len(h) + i]]

\* p_by_class[class_id] as a list of object ids
IdsOfClass(ids, class_id) == SelectSeq(ids, LAMBDA id : heap[id].class_id = class_id)

\* evolve about to select two parents, for the two-class problem, two problems
\* with a single class and the problem with no gene
InitObjects ==
    /\ config = "ODD"
    /\ time_slots = AllSlots
    /\ \E tb \in {TwoClassProblem, LabTheoryProblem, LabPairProblem, ElectiveOnlyProblem} :
         /\ semesters = tb.semesters
         /\ classes = tb.classes
         /\ subjects = tb.subjects
         /\ faculties = tb.faculties
         /\ assignments = tb.assignments
    /\ assignments_before = assignments
    /\ entries = {}
    /\ entries_before = {}
    /\ next_pk = [entry |-> 1, assignment |-> 1]
    /\ params = Params(2, 1, 1, 1)
    /\ problem = [classes |-> LoadedClasses, subjects |-> LoadedSubjects,
                  faculties |-> LoadedFaculties, time_slots |-> TeachingSlotRows,
                  faculty_preferences |-> LoadedPreferences,
                  faculty_history |-> LoadedHistory(Tag)]
    /\ pc = "breed"
    /\ report = NoReport
    /\ population = <<>>
    /\ new_population = <<>>
    /\ generation = 0
    /\ best_ever = Chromosome(<<>>, 0)
    /\ fitness_history = <<>>
    /\ callback_log = <<>>
    /\ evaluated = {}
    /\ widx = 0
    /\ run_no = 1
    /\ prev_pc = "idle"
    /\ NoWriters
    /\ NoObjects

request == <<tables, written, gastate, snapshot, params, problem, pc, report, widx, run_no>>

\* parent1 and parent2 (lines 514-515): two chromosomes out of
\* _create_random_chromosome, their Gene objects laid out on the heap
SelectParents ==
    /\ opc = "none"
    /\ \E p1, p2 \in CreateRandomChromosome :
         /\ heap' = p1.genes \o p2.genes
         /\ heap_before' = p1.genes \o p2.genes
         /\ refs' = [parent1 |-> [i \in 1..Len(p1.genes) |-> i],
                     parent2 |-> [i \in 1..Len(p2.genes) |-> Len(p1.genes) + i],
                     child1 |-> <<>>, child2 |-> <<>>, mutated |-> <<>>]
    /\ opc' = "parents"
    /\ UNCHANGED <<request, runs>>

\* clone = parent1.copy() (lines 41-45)
CopyChromosome ==
    /\ opc = "parents"
    /\ LET r == CopyGenes(heap, refs.parent1)
       IN /\ heap' = r.heap
          /\ refs' = [refs EXCEPT !.child1 = r.ids]
    /\ opc' = "copied"
    /\ UNCHANGED <<request, runs, heap_before>>

\* child1, child2 = crossover(parent1, parent2) (lines 390-425); the Gene objects
\* of the two parent.copy() calls that lines 422-423 drop are left out
CrossoverObjects ==
    /\ opc = "parents"
    /\ \E r \in RandomDraws :
         IF r > params.crossover_rate
         THEN LET c1 == CopyGenes(heap, refs.parent1)
                  c2 == CopyGenes(c1.heap, refs.parent2)
              IN /\ heap' = c2.heap
                 /\ refs' = [refs EXCEPT !.child1 = c1.ids, !.child2 = c2.ids]
                 /\ opc' = "kept"
         ELSE LET all_classes == SetToSeq({heap[id].class_id :
                                             id \in Range(refs.parent1) \cup Range(refs.parent2)})
                  n == Len(all_classes)
                  Source(own, other, classes_to_swap) ==
                      Flatten([k \in 1..n |->
                                 IF all_classes[k] \in classes_to_swap
                                 THEN IdsOfClass(other, all_classes[k])
                                 ELSE IdsOfClass(own, all_classes[k])])
              IN \E sw \in ClassesToSwap(all_classes) :
                   LET c1 == CopyGenes(heap, Source(refs.parent1, refs.parent2, sw))
                       c2 == CopyGenes(c1.heap, Source(refs.parent2, refs.parent1, sw))
                   IN /\ heap' = c2.heap
                      /\ refs' = [refs EXCEPT !.child1 = c1.ids, !.child2 = c2.ids]
                      /\ opc' = "crossed"
    /\ UNCHANGED <<request, runs, heap_before>>

\* an assignment to a field of a Gene object of the clone or of a child, as mutate
\* makes them (lines 447, 454, 463)
SetGeneField ==
    /\ opc \in {"copied", "kept", "crossed"}
    /\ \E id \in Range(refs.child1) \cup Range(refs.child2) :
         \/ \E t \in {2, 7} : heap' = [heap EXCEPT ![id].time_slot_id = t]
         \/ \E f \in {1, 2} : heap' = [heap EXCEPT ![id].faculty_id = f]
    /\ opc' = "changed"
    /\ UNCHANGED <<request, runs, heap_before, refs>>

\* child1 = self.mutate(child1) (lines 427-465): below the rate the chromosome itself
\* is returned; otherwise a copy, with the fields one mutation type assigns
MutateObjects ==
    /\ opc \in {"copied", "kept", "crossed"}
    /\ \E r \in RandomDraws :
         IF r > params.mutation_rate
         THEN /\ refs' = [refs EXCEPT !.mutated = refs.child1]
              /\ heap' = heap
         ELSE LET cp == CopyGenes(heap, refs.child1)
                  genes == [i \in 1..Len(cp.ids) |-> cp.heap[cp.ids[i]]]
                  Store(g) == [k \in 1..Len(cp.heap) |->
                                 IF \E i \in 1..Len(cp.ids) : cp.ids[i] = k
                                 THEN g[CHOOSE i \in 1..Len(cp.ids) : cp.ids[i] = k]
                                 ELSE cp.heap[k]]
              IN /\ refs' = [refs EXCEPT !.mutated = cp.ids]
                 /\ IF genes = <<>> THEN heap' = cp.heap
                    ELSE \E g \in UNION {SwapSlot(genes, i) \cup ChangeFaculty(genes, i)
                                         \cup SwapSubjects(genes, i) : i \in 1..Len(genes)} :
                           heap' = Store(g)
    /\ heap_before' = heap
    /\ opc' = "mutated"
    /\ UNCHANGED <<request, runs>>

NextObjects ==
    \/ SelectParents
    \/ CopyChromosome
    \/ CrossoverObjects
    \/ SetGeneField
    \/ MutateObjects

SpecObjects == InitObjects /\ [][NextObjects]_vars

ParentIds == Range(refs.parent1) \cup Range(refs.parent2)
ChildIds == Range(refs.child1) \cup Range(refs.child2)

\* C15: a clone or crossover child shares no Gene object with its inputs: the
\* parents' genes keep their values when crossover runs and when a field of a
\* gene of the clone or child is changed.
C15_NoSharedGenes ==
    /\ ParentIds \cap ChildIds = {}
    /\ \A id \in ParentIds : heap[id] = heap_before[id]
    /\ opc \in {"copied", "kept", "crossed"} =>
          /\ \A i \in 1..Len(refs.child1) : \E id \in ParentIds : heap[refs.child1[i]] = heap[id]
          /\ opc = "copied" =>
                [i \in 1..Len(refs.child1) |-> heap[refs.child1[i]]]
                = [i \in 1..Len(refs.parent1) |-> heap[refs.parent1[i]]]

\* C15 witness: a gene of a crossover child of two different parents was given a
\* time slot that no gene of the parents has.
C15_Witness ==
    /\ opc = "changed"
    /\ refs.child2 # <<>>
    /\ \E i \in 1..Len(refs.child1) :
         /\ heap[refs.child1[i]].time_slot_id = 7
         /\ \A id \in ParentIds : heap[id].time_slot_id # 7
    /\ [i \in 1..Len(refs.parent1) |-> heap[refs.parent1[i]]]
       # [i \in 1..Len(refs.parent2) |-> heap[refs.parent2[i]]]

----------------------------------------------------------------------------
(* Two requests whose writers (lines 812-876) interleave statement by statement; *)
(* generate_timetable_view (views.py lines 807-827) takes no lock and opens no   *)
(* transaction, so each statement is committed on its own                        *)

\* best chromosomes evolve returns for the department of the requests (class 1,
\* the lab CS302L, faculty 1 and 2) and for the other department (class 9, the
\* theory subject ME301, faculty 2)
ConcBest(department) ==
    IF department = "OWN"
    THEN {[i \in 1..3 |-> Gene(1, 2, fa[1], i, TRUE, fa[2])] : fa \in {<<1, 2>>, <<2, 1>>}}
    ELSE {[i \in 1..3 |-> Gene(9, 9, 2, sl[i], FALSE, None)] : sl \in {<<1, 2, 3>>, <<2, 1, 3>>}}

Writer(department, tag, genes) ==
    [department |-> department, tag |-> tag, genes |-> genes,
     step |-> "delete", i |-> 0, pks |-> <<>>]

\* the first request is for (department, Tag); the second for the same department
\* under another tag, for another department under the same tag, or for the same pair
InitConcurrent ==
    /\ config = "ODD"
    /\ semesters = AllSemesters
    /\ classes = AllClasses
    /\ subjects = AllSubjects
    /\ faculties = AllFaculties
    /\ time_slots = AllSlots
    /\ params = Params(2, MaxGenerations, 1, 2)
    /\ entries = OldEntries
    /\ assignments = OldAssignments
    /\ next_pk = [entry |-> 5, assignment |-> 4]
    /\ problem = EmptyProblem
    /\ pc = "write"
    /\ report = NoReport
    /\ population = <<>>
    /\ new_population = <<>>
    /\ generation = 0
    /\ best_ever = Chromosome(<<>>, 0)
    /\ fitness_history = <<>>
    /\ callback_log = <<>>
    /\ evaluated = {}
    /\ widx = 0
    /\ run_no = 2
    /\ entries_before = OldEntries
    /\ assignments_before = OldAssignments
    /\ prev_pc = "idle"
    /\ NoObjects
    /\ \E second \in {<<"OWN", OtherTag>>, <<"OTHER", Tag>>, <<"OWN", Tag>>} :
         \E g1 \in ConcBest("OWN"), g2 \in ConcBest(second[1]) :
           runs = <<Writer("OWN", Tag, g1), Writer(second[1], second[2], g2)>>

\* the writer's position after the statements for gene i
Advance(w) ==
    IF w.i < Len(w.genes) THEN [w EXCEPT !.step = "create", !.i = w.i + 1]
    ELSE [w EXCEPT !.step = "done"]

\* lines 813-816
ConcDelete ==
    \E p \in DOMAIN runs :
      /\ runs[p].step = "delete"
      /\ entries' = DeleteRows(entries, RowsOfPair(entries, SemesterIdsOf(runs[p].department),
                                                   runs[p].tag))
      /\ runs' = [runs EXCEPT ![p] = Advance(runs[p])]
      /\ UNCHANGED <<assignments, next_pk>>

\* lines 829-837
ConcCreate ==
    \E p \in DOMAIN runs :
      /\ runs[p].step = "create"
      /\ entries' = entries \cup {EntryRow(next_pk.entry, runs[p].genes[runs[p].i], runs[p].tag)}
      /\ next_pk' = [next_pk EXCEPT !.entry = next_pk.entry + 1]
      /\ runs' = [runs EXCEPT ![p].step = "main", ![p].pks = Append(runs[p].pks, next_pk.entry)]
      /\ UNCHANGED assignments

\* lines 861-867
ConcMain ==
    \E p \in DOMAIN runs :
      /\ runs[p].step = "main"
      /\ LET gene == runs[p].genes[runs[p].i]
             st == GetOrCreate([rows |-> assignments, pk |-> next_pk.assignment],
                               gene.faculty_id, gene.subject_id, runs[p].tag,
                               gene.class_id, TRUE)
         IN /\ assignments' = st.rows
            /\ next_pk' = [next_pk EXCEPT !.assignment = st.pk]
            /\ runs' = [runs EXCEPT ![p] = IF gene.assistant_faculty_id # None
                                           THEN [runs[p] EXCEPT !.step = "assistant"]
                                           ELSE Advance(runs[p])]
      /\ UNCHANGED entries

\* lines 869-876
ConcAssistant ==
    \E p \in DOMAIN runs :
      /\ runs[p].step = "assistant"
      /\ LET gene == runs[p].genes[runs[p].i]
             st == GetOrCreate([rows |-> assignments, pk |-> next_pk.assignment],
                               gene.assistant_faculty_id, gene.subject_id, runs[p].tag,
                               gene.class_id, FALSE)
         IN /\ assignments' = st.rows
            /\ next_pk' = [next_pk EXCEPT !.assignment = st.pk]
            /\ runs' = [runs EXCEPT ![p] = Advance(runs[p])]
      /\ UNCHANGED entries

NextConcurrent ==
    \/ (ConcDelete /\ UNCHANGED <<objects, tables, gastate, snapshot, params, problem, pc,
                                   report, widx, run_no>>)
    \/ (ConcCreate /\ UNCHANGED <<objects, tables, gastate, snapshot, params, problem, pc,
                                   report, widx, run_no>>)
    \/ (ConcMain /\ UNCHANGED <<objects, tables, gastate, snapshot, params, problem, pc,
                                 report, widx, run_no>>)
    \/ (ConcAssistant /\ UNCHANGED <<objects, tables, gastate, snapshot, params, problem, pc,
                                      report, widx, run_no>>)

SpecConcurrent == InitConcurrent /\ [][NextConcurrent]_vars

PairOf(p) == <<runs[p].department, runs[p].tag>>

\* row e is of the department (odd semesters) and tag of request p
InPair(e, p) ==
    /\ e.semester_instance = runs[p].tag
    /\ \E k \in 1..Len(classes) : \E sem \in semesters :
         /\ classes[k].id = e.class_section_id
         /\ sem.id = classes[k].semester_id
         /\ sem.department = runs[p].department
         /\ sem.number % 2 = 1

PairRows(p) == {e \in entries : InPair(e, p)}

OneRowPerGene(rows, genes) ==
    /\ \A e \in rows : RowGene(e) \in Range(genes)
    /\ \A i \in 1..Len(genes) :
          Cardinality({e \in rows : RowGene(e) = genes[i]})
          = Cardinality({j \in 1..Len(genes) : genes[j] = genes[i]})

\* C17: when the writers of two requests for disjoint (department, tag) pairs
\* interleave, each request ends with one row per gene of its own best chromosome
\* for its pair, every row a request wrote stays as written, and rows of neither
\* pair are untouched.
C17_DisjointPairsIndependent ==
    (Len(runs) = 2 /\ PairOf(1) # PairOf(2)) =>
        /\ \A p \in 1..2 :
              /\ runs[p].step = "done" => OneRowPerGene(PairRows(p), runs[p].genes)
              /\ \A k \in 1..Len(runs[p].pks) :
                    EntryRow(runs[p].pks[k], runs[p].genes[k], runs[p].tag) \in entries
        /\ {e \in entries : ~InPair(e, 1) /\ ~InPair(e, 2)}
           = {e \in entries_before : ~InPair(e, 1) /\ ~InPair(e, 2)}

\* C17 witness: requests for two departments under one tag both ended, their
\* inserts having alternated.
C17_Witness ==
    /\ Len(runs) = 2
    /\ runs[2].department = "OTHER"
    /\ runs[1].step = "done"
    /\ runs[2].step = "done"
    /\ runs[1].pks[1] < runs[2].pks[1]
    /\ runs[2].pks[1] < runs[1].pks[2]
    /\ runs[1].pks[3] < runs[2].pks[3]

\* C18: when two requests for the same department and tag have both ended, the
\* stored rows of the pair are one per gene of the best chromosome of exactly one
\* of them, under any interleaving.
C18_SamePairOneTimetable ==
    (Len(runs) = 2 /\ PairOf(1) = PairOf(2) /\ runs[1].step = "done" /\ runs[2].step = "done") =>
        \E p \in 1..2 : OneRowPerGene(PairRows(p), runs[p].genes)

----------------------------------------------------------------------------
(* calculate_fitness applied to chromosomes of up to three genes over two     *)
(* classes, two faculty and two slots                                         *)

InputGenes ==
    {Gene(c, 1, f, t, FALSE, a) : c \in {1, 2}, f \in {1, 2}, t \in {1, 2}, a \in {None, 1, 2}}

InputChromosomes ==
    {Chromosome(g, 0) : g \in UNION {[1..n -> InputGenes] : n \in 0..3}}

InitFitness ==
    /\ config = "ODD"
    /\ time_slots = AllSlots
    /\ semesters = TwoClassProblem.semesters
    /\ classes = TwoClassProblem.classes
    /\ subjects = TwoClassProblem.subjects
    /\ faculties = TwoClassProblem.faculties
    /\ assignments = TwoClassProblem.assignments
    /\ assignments_before = assignments
    /\ entries = {}
    /\ entries_before = {}
    /\ next_pk = [entry |-> 1, assignment |-> 1]
    /\ params = Params(1, 1, 1, 1)
    /\ problem = [classes |-> LoadedClasses, subjects |-> LoadedSubjects,
                  faculties |-> LoadedFaculties, time_slots |-> TeachingSlotRows,
                  faculty_preferences |-> LoadedPreferences,
                  faculty_history |-> LoadedHistory(Tag)]
    /\ pc = "evaluate"
    /\ report = NoReport
    /\ \E c \in InputChromosomes : population = <<c>>
    /\ new_population = <<>>
    /\ generation = 0
    /\ best_ever = Chromosome(<<>>, 0)
    /\ fitness_history = <<>>
    /\ callback_log = <<>>
    /\ evaluated = {}
    /\ widx = 0
    /\ run_no = 1
    /\ prev_pc = "idle"
    /\ NoObjects
    /\ NoWriters

\* self.calculate_fitness(chromosome)
EvaluateChromosome ==
    /\ pc = "evaluate"
    /\ population' = <<Evaluate(population[1])>>
    /\ evaluated' = {CalculateFitness(population[1])}
    /\ pc' = "evaluated"
    /\ UNCHANGED <<objects, runs, tables, written, params, problem, report, widx, run_no,
                   snapshot, new_population, generation, best_ever, fitness_history,
                   callback_log>>

NextFitness == EvaluateChromosome

SpecFitness == InitFitness /\ [][NextFitness]_vars

\* the sum over the keys k of (count(k) - 1), for the keys that occur
SurplusSum(keys, count(_)) ==
    LET RECURSIVE Total(_)
        Total(K) == IF K = {} THEN 0
                    ELSE LET k == CHOOSE k \in K : TRUE IN count(k) - 1 + Total(K \ {k})
    IN Total(keys)

\* sum over (faculty, slot) of the genes naming the faculty at the slot, minus 1
GenesNamingSurplus(genes) ==
    SurplusSum({<<genes[i].faculty_id, genes[i].time_slot_id>> : i \in 1..Len(genes)}
               \cup {<<genes[i].assistant_faculty_id, genes[i].time_slot_id>> :
                        i \in {i \in 1..Len(genes) : genes[i].assistant_faculty_id # None}},
               LAMBDA k : Cardinality({i \in 1..Len(genes) :
                                         /\ genes[i].time_slot_id = k[2]
                                         /\ \/ genes[i].faculty_id = k[1]
                                            \/ genes[i].assistant_faculty_id = k[1]}))

\* the same with a gene counted once as main and once as assistant
OccurrenceSurplus(genes) ==
    SurplusSum({<<genes[i].faculty_id, genes[i].time_slot_id>> : i \in 1..Len(genes)}
               \cup {<<genes[i].assistant_faculty_id, genes[i].time_slot_id>> :
                        i \in {i \in 1..Len(genes) : genes[i].assistant_faculty_id # None}},
               LAMBDA k : Cardinality({i \in 1..Len(genes) :
                                         genes[i].time_slot_id = k[2] /\ genes[i].faculty_id = k[1]})
                          + Cardinality({i \in 1..Len(genes) :
                                         /\ genes[i].time_slot_id = k[2]
                                         /\ genes[i].assistant_faculty_id = k[1]}))

ClassSurplus(genes) ==
    SurplusSum({<<genes[i].class_id, genes[i].time_slot_id>> : i \in 1..Len(genes)},
               LAMBDA k : Cardinality({i \in 1..Len(genes) :
                                         genes[i].time_slot_id = k[2] /\ genes[i].class_id = k[1]}))

\* the clash penalties in a stored fitness: what is left of it without the other terms
ClashPart(c) ==
    c.fitness - BalancePenaltyScaled(c.genes)
    - FitScale * (WorkloadPenalty(c.genes) + LabPenalty(c.genes) + RotationPenalty(c.genes)
                  + WEIGHTS.faculty_preference
                    * Cardinality({i \in 1..Len(c.genes) :
                                     SubjectCode(c.genes[i].subject_id)
                                     \in Range(Preferences(c.genes[i].faculty_id))}))

Reordered(genes) ==
    {[i \in 1..Len(genes) |-> genes[f[i]]] :
       f \in {f \in [1..Len(genes) -> 1..Len(genes)] :
                 \A i, j \in 1..Len(genes) : i # j => f[i] # f[j]}}

\* C21 as claimed: the clash penalties of an evaluated chromosome are -1000 times
\* the sum over (faculty, slot) of (genes naming the faculty at the slot as main or
\* assistant, minus 1) plus -1000 times the same sum over (class, slot), in any gene order.
C21_Original ==
    pc = "evaluated" =>
        \A g \in Reordered(population[1].genes) :
            ClashPart(Evaluate(Chromosome(g, 0)))
            = FitScale * (WEIGHTS.faculty_clash * GenesNamingSurplus(population[1].genes)
                          + WEIGHTS.class_clash * ClassSurplus(population[1].genes))

\* C21 amended: the faculty sum counts a gene once for its main faculty and once for
\* its assistant, so a gene whose assistant is its own main faculty counts twice.
C21_ClashPenalties ==
    pc = "evaluated" =>
        /\ ClashPart(population[1])
           = FitScale * (WEIGHTS.faculty_clash * OccurrenceSurplus(population[1].genes)
                         + WEIGHTS.class_clash * ClassSurplus(population[1].genes))
        /\ \A g \in Reordered(population[1].genes) :
              ClashPart(Evaluate(Chromosome(g, 0))) = ClashPart(population[1])

\* C21 witness: an evaluated chromosome with a faculty clash through an assistant
\* and a class clash.
C21_Witness ==
    /\ pc = "evaluated"
    /\ Len(population[1].genes) = 3
    /\ ClassSurplus(population[1].genes) = 1
    /\ OccurrenceSurplus(population[1].genes) = 2
    /\ GenesNamingSurplus(population[1].genes) = 2
    /\ population[1].fitness = FitScale * 3 * WEIGHTS.faculty_clash

----------------------------------------------------------------------------
(* Crossover by class blocks *)

Vals(ids) == [i \in 1..Len(ids) |-> heap[ids[i]]]

ValsOfClass(ids, class_id) == SelectSeq(Vals(ids), LAMBDA g : g.class_id = class_id)

ClassKeys == {heap[id].class_id : id \in ParentIds}

\* C22: when crossover is applied, floor(n/2) of the n class keys are swapped: for a
\* swapped class child1 holds exactly parent2's genes of the class and child2 exactly
\* parent1's, for the other classes each child holds its own parent's; with a single
\* class both children are gene-for-gene copies of their own parent.
C22_ClassBlocks ==
    opc = "crossed" =>
        /\ \E sw \in SUBSET ClassKeys :
              /\ Cardinality(sw) = Cardinality(ClassKeys) \div 2
              /\ \A c \in ClassKeys :
                    IF c \in sw
                    THEN /\ ValsOfClass(refs.child1, c) = ValsOfClass(refs.parent2, c)
                         /\ ValsOfClass(refs.child2, c) = ValsOfClass(refs.parent1, c)
                    ELSE /\ ValsOfClass(refs.child1, c) = ValsOfClass(refs.parent1, c)
                         /\ ValsOfClass(refs.child2, c) = ValsOfClass(refs.parent2, c)
        /\ \A id \in ChildIds : heap[id].class_id \in ClassKeys
        /\ Cardinality(ClassKeys) = 1 =>
              /\ Vals(refs.child1) = Vals(refs.parent1)
              /\ Vals(refs.child2) = Vals(refs.parent2)

\* C22 witness: crossover of two parents that differ in both classes gave children
\* that each mix the two parents.
C22_Witness ==
    /\ opc = "crossed"
    /\ Cardinality(ClassKeys) = 2
    /\ \A c \in ClassKeys : ValsOfClass(refs.parent1, c) # ValsOfClass(refs.parent2, c)
    /\ Vals(refs.child1) # Vals(refs.parent1)
    /\ Vals(refs.child1) # Vals(refs.parent2)

\* the single-class case of C22 is reached: two different parents with one class key
C22_SingleClassReached ==
    /\ opc = "crossed"
    /\ Cardinality(ClassKeys) = 1
    /\ Vals(refs.parent1) # Vals(refs.parent2)

----------------------------------------------------------------------------
(* One application of mutate *)

\* the genes passed to mutate as they were at the call, and the genes returned
MutateIn == [i \in 1..Len(refs.child1) |-> heap_before[refs.child1[i]]]
MutateOut == Vals(refs.mutated)

Differing == {i \in 1..Len(MutateOut) : MutateOut[i] # MutateIn[i]}

SlotsExchanged(i, j) ==
    /\ MutateIn[i].class_id = MutateIn[j].class_id
    /\ ~MutateIn[j].is_lab
    /\ MutateOut[i].time_slot_id = MutateIn[j].time_slot_id
    /\ MutateOut[j].time_slot_id = MutateIn[i].time_slot_id

FacultyExchanged(i, j) ==
    /\ MutateIn[i].time_slot_id = MutateIn[j].time_slot_id
    /\ MutateIn[i].class_id # MutateIn[j].class_id
    /\ MutateOut[i].faculty_id = MutateIn[j].faculty_id
    /\ MutateOut[j].faculty_id = MutateIn[i].faculty_id

\* C23: one application of mutate returns as many genes as it was given, with the
\* same class, subject, is_lab and assistant in every position; at most two genes
\* differ, either by an exchange of time slots between two genes of one class (the
\* second one not a lab gene) or in faculty only (one gene given an eligible faculty,
\* or an exchange between two genes on one slot in different classes); the genes
\* passed in keep their values; an empty chromosome comes back empty.
C23_MutateFrame ==
    opc = "mutated" =>
        /\ \A id \in Range(refs.child1) : heap[id] = heap_before[id]
        /\ Len(MutateOut) = Len(MutateIn)
        /\ \A i \in 1..Len(MutateOut) :
              /\ MutateOut[i].class_id = MutateIn[i].class_id
              /\ MutateOut[i].subject_id = MutateIn[i].subject_id
              /\ MutateOut[i].is_lab = MutateIn[i].is_lab
              /\ MutateOut[i].assistant_faculty_id = MutateIn[i].assistant_faculty_id
        /\ Cardinality(Differing) <= 2
        /\ \/ Differing = {}
           \/ /\ \A i \in 1..Len(MutateOut) : MutateOut[i].faculty_id = MutateIn[i].faculty_id
              /\ \E i, j \in 1..Len(MutateOut) :
                    i # j /\ Differing \subseteq {i, j} /\ SlotsExchanged(i, j)
           \/ /\ \A i \in 1..Len(MutateOut) : MutateOut[i].time_slot_id = MutateIn[i].time_slot_id
              /\ \/ \E i \in 1..Len(MutateOut) :
                       /\ Differing = {i}
                       /\ MutateOut[i].faculty_id
                          \in Range(GetEligibleFaculty(MutateIn[i].subject_id))
                 \/ \E i, j \in 1..Len(MutateOut) :
                       i # j /\ Differing \subseteq {i, j} /\ FacultyExchanged(i, j)

\* C23 witness: mutate exchanged the time slots of a lab gene and the theory gene of
\* its class, on a copy.
C23_Witness ==
    /\ opc = "mutated"
    /\ refs.mutated # refs.child1
    /\ Cardinality(Differing) = 2
    /\ \E i, j \in Differing : MutateIn[i].is_lab /\ ~MutateIn[j].is_lab /\ SlotsExchanged(i, j)

\* mutate returned an empty chromosome for an empty one
EmptyMutated == opc = "mutated" /\ refs.child1 = <<>> /\ refs.mutated = <<>>

\* mutate gave a lab gene with an assistant another main faculty
LabFacultyChanged ==
    /\ opc = "mutated"
    /\ \E i \in Differing : MutateIn[i].assistant_faculty_id # None

----------------------------------------------------------------------------
(* Labs in the initial population *)

\* the population as initialize_population and the first evaluation leave it
InitialPopulation == pc = "generation" /\ generation = 0

LabSubjectsOf(class_info) ==
    {s.id : s \in Range(LabSubjectsForClass(class_info))}

\* C24: in every chromosome of the initial population each lab subject placed for a
\* class has exactly three genes, all is_lab, with one main faculty and one
\* assistant, on periods {1,2,3} or {5,6,7} of one day, on slots no other gene of
\* the class uses; the evaluator charges no lab_continuity or lab_timing penalty.
C24_InitialLabBlocks ==
    InitialPopulation =>
        \A k \in 1..Len(population) :
            LET genes == population[k].genes
            IN /\ \A i \in 1..Len(problem.classes) :
                    \A lab \in LabSubjectsOf(problem.classes[i]) :
                      LET mine == GenesOf(genes, problem.classes[i].id, lab)
                          slots == {mine[j].time_slot_id : j \in 1..Len(mine)}
                      IN mine # <<>> =>
                           /\ Len(mine) = 3
                           /\ \A j \in 1..3 : /\ mine[j].is_lab
                                                /\ mine[j].faculty_id = mine[1].faculty_id
                                                /\ mine[j].assistant_faculty_id
                                                   = mine[1].assistant_faculty_id
                           /\ Cardinality({SlotDay(t) : t \in slots}) = 1
                           /\ {SlotPeriod(t) : t \in slots} \in {{1, 2, 3}, {5, 6, 7}}
                           /\ \A j \in 1..Len(genes) :
                                 (/\ genes[j].class_id = problem.classes[i].id
                                  /\ genes[j].time_slot_id \in slots)
                                 => genes[j].subject_id = lab
               /\ LabPenalty(genes) = 0

\* C24 witness: an initial chromosome with a morning and an afternoon lab block of
\* one class, each with an assistant.
C24_Witness ==
    /\ InitialPopulation
    /\ \E k \in 1..Len(population) :
         LET genes == population[k].genes
         IN \E i, j \in 1..Len(genes) :
              /\ genes[i].class_id = genes[j].class_id
              /\ genes[i].is_lab /\ genes[j].is_lab
              /\ genes[i].assistant_faculty_id # None
              /\ genes[j].assistant_faculty_id # None
              /\ SlotPeriod(genes[i].time_slot_id) = 1
              /\ SlotPeriod(genes[j].time_slot_id) = 7

\* C25: for a class with more than two lab subjects every initial chromosome has
\* genes for the third and later lab subjects, placed theory-style (not is_lab), and
\* is charged a lab_continuity penalty.
C25_LaterLabsPlaced ==
    InitialPopulation =>
        \A k \in 1..Len(population) :
          \A i \in 1..Len(problem.classes) :
            LET labs == LabSubjectsForClass(problem.classes[i])
            IN Len(labs) > 2 =>
                 /\ \A n \in 3..Len(labs) :
                       LET mine == GenesOf(population[k].genes, problem.classes[i].id, labs[n].id)
                       IN mine # <<>> /\ \A j \in 1..Len(mine) : ~mine[j].is_lab
                 /\ LabPenalty(population[k].genes) <= WEIGHTS.lab_continuity

----------------------------------------------------------------------------
(* Rotation ledger and faculty pairs during a request *)

\* the ledger rows of faculty_id for the code of subject_id, as stored when the
\* request started
LedgerRows(faculty_id, subject_id) ==
    {a \in assignments_before :
        /\ a.faculty_id = faculty_id
        /\ CodeOfSubject(a.subject_id) = CodeOfSubject(subject_id)}

\* the genes whose main faculty has a row for the subject's code under another tag
RotatedGenes(genes) ==
    {i \in 1..Len(genes) :
        \E a \in LedgerRows(genes[i].faculty_id, genes[i].subject_id) :
            a.semester_instance # Tag}

\* C26: the fitness of every chromosome of a request holds -50 for each gene whose
\* main faculty has a ledger row for the gene's subject code under a tag other than
\* the request's tag, and nothing for rows under the request's own tag.
C26_RotationByOtherTags ==
    pc \in {"generation", "breed", "write", "save", "done"} =>
        \A c \in Chromosomes :
            c.fitness
            = FitScale * (GeneLoop(c.genes, {}, {}, 0) + WorkloadPenalty(c.genes)
                          + LabPenalty(c.genes)
                          + WEIGHTS.subject_rotation * Cardinality(RotatedGenes(c.genes)))
              + BalancePenaltyScaled(c.genes)

\* C26 witness: in a second request, a chromosome whose main faculty has only an
\* own-tag row for the lab scores 0 and one whose main faculty has an earlier-term
\* row scores -50 per gene.
C26_Witness ==
    /\ run_no = 2
    /\ pc = "generation"
    /\ \E c1, c2 \in Range(population) :
         /\ c1.genes # <<>>
         /\ \A i \in 1..Len(c1.genes) :
               /\ LedgerRows(c1.genes[i].faculty_id, c1.genes[i].subject_id) # {}
               /\ \A a \in LedgerRows(c1.genes[i].faculty_id, c1.genes[i].subject_id) :
                     a.semester_instance = Tag
         /\ c1.fitness = 0
         /\ c2.genes # <<>>
         /\ c2.fitness = FitScale * WEIGHTS.subject_rotation * Len(c2.genes)

\* C28: in every chromosome of every generation a gene that has an assistant has an
\* assistant different from its main faculty.
C28_AssistantDiffers ==
    \A c \in Chromosomes :
        \A i \in 1..Len(c.genes) :
            c.genes[i].assistant_faculty_id # None
            => c.genes[i].assistant_faculty_id # c.genes[i].faculty_id

----------------------------------------------------------------------------
(* Class slots through the generations *)

\* C27: in every chromosome of every generation (initial, elite copy, child,
\* returned best) no two genes of one class share a time slot, so no class_clash
\* penalty is in any fitness.
C27_NoClassClash ==
    \A c \in Chromosomes :
        /\ \A i, j \in 1..Len(c.genes) :
              (i # j /\ c.genes[i].class_id = c.genes[j].class_id)
              => c.genes[i].time_slot_id # c.genes[j].time_slot_id
        /\ ClassSurplus(c.genes) = 0

\* C27 witness: after a generation of breeding the population holds a chromosome
\* in which swap_slot moved the theory gene of a class into its lab's block.
C27_Witness ==
    /\ pc = "generation"
    /\ generation >= 1
    /\ \E c \in Range(population) :
         \E i, j \in 1..Len(c.genes) :
           /\ c.genes[i].class_id = c.genes[j].class_id
           /\ ~c.genes[i].is_lab
           /\ c.genes[j].is_lab
           /\ SlotPeriod(c.genes[i].time_slot_id) <= 3
           /\ SlotPeriod(c.genes[j].time_slot_id) >= 4

----------------------------------------------------------------------------
(* Cached fitness *)

\* the genes of the stored rows of the department and tag, in insertion order
StoredGenes ==
    LET rows == DeptTagRows(entries)
        pks == SetToSeq({e.pk : e \in rows})
    IN [k \in 1..Len(pks) |-> RowGene(CHOOSE e \in rows : e.pk = pks[k])]

\* C29: at the start of every generation and at return the cached fitness of every
\* chromosome of the population, of every elite copy and of the returned best is
\* the evaluator's score of its genes, and the report's final_fitness is the score
\* of the genes that were stored.
C29_CachedFitnessIsScore ==
    /\ pc = "generation" =>
          \A k \in 1..Len(population) : population[k].fitness = CalculateFitness(population[k])
    /\ pc = "breed" =>
          \A k \in 1..Len(new_population) :
              new_population[k].fitness = CalculateFitness(new_population[k])
    /\ pc \in {"generation", "breed", "write", "save", "done"} =>
          best_ever.fitness = CalculateFitness(best_ever)
    /\ pc = "done" =>
          report.final_fitness = CalculateFitness(Chromosome(StoredGenes, 0))

\* C29 witness: a request that bred for a generation ended with a negative
\* final_fitness and its rows stored.
C29_Witness ==
    /\ pc = "done"
    /\ Len(fitness_history) >= 2
    /\ report.final_fitness < 0
    /\ Len(StoredGenes) = 3
    /\ report.final_fitness = best_ever.fitness

----------------------------------------------------------------------------
(* Requests of a department with one class, a one-hour theory subject and two  *)
(* faculty who both taught it in an earlier term                               *)

InitLedger ==
    /\ config = "ODD"
    /\ semesters = {Sem(1, 3, "OWN")}
    /\ classes = <<Cls(1, 1)>>
    /\ subjects = <<Sub(1, "CS301", "THEORY", 1, 1)>>
    /\ faculties = <<Fac(1, "ASSISTANT_PROFESSOR", <<>>, TRUE, "OWN"),
                     Fac(2, "PROFESSOR", <<>>, TRUE, "OWN")>>
    /\ time_slots = AllSlots
    /\ params = Params(2, MaxGenerations, 1, 2)
    /\ entries = {}
    /\ assignments = {Asg(1, 1, 1, OtherTag, 1, TRUE), Asg(2, 2, 1, OtherTag, 1, TRUE)}
    /\ next_pk = [entry |-> 1, assignment |-> 3]
    /\ problem = EmptyProblem
    /\ pc = "idle"
    /\ report = NoReport
    /\ population = <<>>
    /\ new_population = <<>>
    /\ generation = 0
    /\ best_ever = Chromosome(<<>>, 0)
    /\ fitness_history = <<>>
    /\ callback_log = <<>>
    /\ evaluated = {}
    /\ widx = 0
    /\ run_no = 0
    /\ entries_before = entries
    /\ assignments_before = assignments
    /\ prev_pc = "idle"
    /\ NoObjects
    /\ NoWriters

SpecLedger == InitLedger /\ [][Next]_vars

\* C30: after successful requests for the department and tag, every ledger row with
\* the tag for a class of the department matches a stored entry with the tag: one
\* of the same class and subject that names the row's faculty as main or assistant.
C30_LedgerMatchesEntries ==
    (pc = "done" /\ prev_pc \in {"idle", "done"}) =>
        \A a \in assignments :
            (a.semester_instance = Tag /\ ClassSemester(a.class_section_id) \in SemesterIds)
            => \E e \in entries :
                 /\ e.semester_instance = Tag
                 /\ e.class_section_id = a.class_section_id
                 /\ e.subject_id = a.subject_id
                 /\ a.faculty_id \in {e.faculty_id, e.assistant_faculty_id}

====
